---- MODULE Spec2Model ----
(***************************************************************************)
(* Reward accounting, stake lifecycle and emergency controls of the        *)
(* Jarvis staking contracts:                                               *)
(*   kr8tiv-staking/src/lib.rs   per-token accumulator, partial unstake    *)
(*   staking/src/lib.rs          weight-based accumulator                  *)
(*   staking/src/emergency.rs    emergency levels and multisig proposals   *)
(*   staking/src/state.rs        account records and admin authority       *)
(*   staking/src/reward_math.rs  tiered reward calculation                 *)
(*                                                                         *)
(* Every instruction handler is an operator from the account records it    *)
(* receives to the records it leaves in memory together with its result    *)
(* code; the dispatcher writes the records back only when the handler      *)
(* returned Ok.                                                            *)
(***************************************************************************)
EXTENDS Integers, Sequences, FiniteSets, TLC

VARIABLES now, steps, prog, kr8tiv, staking, emerg, last, calc, ledger

vars == <<now, steps, prog, kr8tiv, staking, emerg, last, calc, ledger>>

(***************************************************************************)
(* Bounds of the model.  Machine words are reduced: U64_MAX stands for     *)
(* u64::MAX and U128_MAX for u128::MAX, so that the overflow branches of   *)
(* the checked arithmetic are reached with small operands.  Time is        *)
(* counted in ticks, SECONDS_PER_DAY ticks to the day.                     *)
(***************************************************************************)
U64_MAX == 255
U128_MAX == (U64_MAX + 1) * (U64_MAX + 1) - 1
SECONDS_PER_DAY == 2
RPT_SCALE == 4
RPW_SCALE == 8
Genesis == 1
FineTicks == 1
MaxSteps == 5
E_MaxSteps == 4
InitialWallet == 3
InitialRewardVault == 40
DepositAmount == 20
MaxRewardVault == InitialRewardVault + DepositAmount
MaxAmount == 2
MaxRate == 2
InitialRate == 1
CooldownDays == 3
MaxRequired == 4
PRECISION == 1

Users == {"u1", "u2"}
Authority == "admin"
Signers == Users \cup {Authority}

None == -1

(***************************************************************************)
(* Machine arithmetic                                                      *)
(***************************************************************************)
\* u64::wrapping_sub
WrappingSub(a, b) == (a - b) % (U64_MAX + 1)

\* u64::saturating_sub
SatSub(a, b) == IF a >= b THEN a - b ELSE 0

\* u64::checked_add / checked_sub; None on overflow
CheckedAdd64(a, b) == IF a + b > U64_MAX THEN None ELSE a + b
CheckedSub64(a, b) == IF a < b THEN None ELSE a - b

\* u128::checked_mul / checked_add; None on overflow
CheckedMul128(a, b) ==
    IF b # 0 /\ a > U128_MAX \div b THEN None ELSE a * b
CheckedAdd128(a, b) == IF a > U128_MAX - b THEN None ELSE a + b

\* `x as u64` of a u128 value: the low word
AsU64(x) == x % (U64_MAX + 1)

(***************************************************************************)
(* Handler results.  st is the set of account records as the handler left  *)
(* them in memory when it returned, payout what it paid to the caller.     *)
(***************************************************************************)
Fail(e, st) == [err |-> e, st |-> st, payout |-> 0, extra |-> 0]
Done(st, paid) == [err |-> "Ok", st |-> st, payout |-> paid, extra |-> 0]
Done2(st, paid, more) ==
    [err |-> "Ok", st |-> st, payout |-> paid, extra |-> more]

\* Anchor's dispatcher: accounts are written back (and the runtime keeps
\* the transaction's transfers) only when the handler returned Ok.
PersistAlways(old, res) == res.st
Persist(old, res) == IF res.err = "Ok" THEN res.st ELSE old

\* SPL token transfer / lamport debit: fails when the source holds too little
TransferOk(balance, amount) == balance >= amount

(***************************************************************************)
(* kr8tiv-staking                                                          *)
(***************************************************************************)
COOLDOWN_DURATION == 3 * SECONDS_PER_DAY

MULTIPLIER_PRECISION == 1000000

TIER_1_THRESHOLD == 7 * SECONDS_PER_DAY
TIER_2_THRESHOLD == 30 * SECONDS_PER_DAY
TIER_3_THRESHOLD == 90 * SECONDS_PER_DAY

MULTIPLIER_BASE == 1000000
MULTIPLIER_TIER_1 == 1500000
MULTIPLIER_TIER_2 == 2000000
MULTIPLIER_TIER_3 == 2500000

K_NewUserStake ==
    [amount |-> 0, stake_start_time |-> 0, last_stake_time |-> 0,
     reward_per_token_paid |-> 0, pending_rewards |-> 0,
     total_rewards_claimed |-> 0, cooldown_amount |-> 0, cooldown_end |-> 0]

\* initialize_pool
K_initialize_pool(reward_rate, t) ==
    [pool |-> [reward_rate |-> reward_rate, total_staked |-> 0,
               reward_per_token_stored |-> 0, last_update_time |-> t,
               paused |-> FALSE],
     users |-> [u \in Users |-> K_NewUserStake],
     staking_vault |-> 0,
     wallet |-> [u \in Users |-> InitialWallet],
     reward_vault |-> InitialRewardVault]

\* the accumulator after a settlement whose last addition wraps
K_AccumulatorWrapping(pool, t) ==
    LET time_elapsed == SatSub(t, pool.last_update_time)
        new_rewards == CheckedMul128(pool.reward_rate, time_elapsed)
        scaled == IF new_rewards = None THEN None
                  ELSE CheckedMul128(new_rewards, RPT_SCALE)
    IN  IF scaled = None THEN None
        ELSE (pool.reward_per_token_stored
                  + AsU64(scaled \div pool.total_staked)) % (U64_MAX + 1)

\* the accumulator after a settlement; None when the checked arithmetic fails
K_Accumulator(pool, t) ==
    LET time_elapsed == SatSub(t, pool.last_update_time)
        new_rewards == CheckedMul128(pool.reward_rate, time_elapsed)
        scaled == IF new_rewards = None THEN None
                  ELSE CheckedMul128(new_rewards, RPT_SCALE)
    IN  IF scaled = None THEN None
        ELSE CheckedAdd64(pool.reward_per_token_stored,
                          AsU64(scaled \div pool.total_staked))

\* a settlement that advances the accumulator but leaves the pool's clock
K_update_rewards_stale_clock(pool, t) ==
    IF pool.total_staked > 0
    THEN LET stored == K_Accumulator(pool, t)
         IN  IF stored = None
             THEN [err |-> "MathOverflow", pool |-> pool]
             ELSE [err |-> "Ok",
                   pool |-> [pool EXCEPT !.reward_per_token_stored = stored]]
    ELSE [err |-> "Ok", pool |-> pool]

\* a settlement that leaves an empty pool's clock where it was
K_update_rewards_idle_clock(pool, t) ==
    IF pool.total_staked > 0
    THEN LET stored == K_Accumulator(pool, t)
         IN  IF stored = None
             THEN [err |-> "MathOverflow", pool |-> pool]
             ELSE [err |-> "Ok",
                   pool |-> [pool EXCEPT !.reward_per_token_stored = stored,
                                         !.last_update_time = t]]
    ELSE [err |-> "Ok", pool |-> pool]

\* update_rewards: [err, pool]
K_update_rewards(pool, t) ==
    IF pool.total_staked > 0
    THEN LET stored == K_Accumulator(pool, t)
         IN  IF stored = None
             THEN [err |-> "MathOverflow", pool |-> pool]
             ELSE [err |-> "Ok",
                   pool |-> [pool EXCEPT !.reward_per_token_stored = stored,
                                         !.last_update_time = t]]
    ELSE [err |-> "Ok", pool |-> [pool EXCEPT !.last_update_time = t]]

\* calculate_pending_rewards (before multiplier)
K_calculate_pending_rewards(pool, user_stake) ==
    IF user_stake.amount = 0 THEN 0
    ELSE LET reward_per_token_diff ==
                 SatSub(pool.reward_per_token_stored,
                        user_stake.reward_per_token_paid)
         IN  AsU64((user_stake.amount * reward_per_token_diff) \div RPT_SCALE)

\* get_time_multiplier
K_get_time_multiplier(stake_start, t) ==
    IF stake_start = 0 THEN MULTIPLIER_BASE
    ELSE LET duration == SatSub(t, stake_start)
         IN  IF duration >= TIER_3_THRESHOLD THEN MULTIPLIER_TIER_3
             ELSE IF duration >= TIER_2_THRESHOLD THEN MULTIPLIER_TIER_2
             ELSE IF duration >= TIER_1_THRESHOLD THEN MULTIPLIER_TIER_1
             ELSE MULTIPLIER_BASE

\* a stake that credits the user and the vault but not the pool's total
K_stake_forgets_total(st, u, amount, t) ==
    IF ~(amount > 0) THEN Fail("InvalidAmount", st)
    ELSE IF ~TransferOk(st.wallet[u], amount) THEN Fail("TransferFailed", st)
    ELSE Done([st EXCEPT !.wallet[u] = @ - amount,
                         !.staking_vault = @ + amount,
                         !.users[u].amount = @ + amount,
                         !.users[u].last_stake_time = t], 0)

\* variant: a stake that overwrites the settled rewards instead of adding
K_stake_drops_pending(st, u, amount, t) ==
    IF ~(amount > 0) THEN Fail("InvalidAmount", st)
    ELSE IF st.pool.paused THEN Fail("PoolPaused", st)
    ELSE IF ~TransferOk(st.wallet[u], amount) THEN Fail("TransferFailed", st)
    ELSE IF K_update_rewards(st.pool, t).err # "Ok"
    THEN Fail("MathOverflow", st)
    ELSE Done([st EXCEPT
                 !.pool = [K_update_rewards(st.pool, t).pool EXCEPT
                              !.total_staked = @ + amount],
                 !.wallet[u] = @ - amount,
                 !.staking_vault = @ + amount,
                 !.users[u].amount = @ + amount,
                 !.users[u].pending_rewards = 0,
                 !.users[u].reward_per_token_paid =
                      K_update_rewards(st.pool, t).pool.reward_per_token_stored,
                 !.users[u].stake_start_time = IF @ = 0 THEN t ELSE @,
                 !.users[u].last_stake_time = t], 0)

\* stake(amount) by user u at time t
K_stake(st, u, amount, t) ==
    IF ~(amount > 0) THEN Fail("InvalidAmount", st)
    ELSE IF st.pool.paused THEN Fail("PoolPaused", st)
    ELSE
    LET upd == K_update_rewards(st.pool, t)
        st1 == [st EXCEPT !.pool = upd.pool]
        us  == st.users[u]
    IN  IF upd.err # "Ok" THEN Fail(upd.err, st1)
        ELSE
        LET pending == K_calculate_pending_rewards(upd.pool, us)
            settled == CheckedAdd64(us.pending_rewards, pending)
            us1 == IF us.amount > 0
                   THEN [us EXCEPT !.pending_rewards = settled]
                   ELSE [us EXCEPT !.stake_start_time = t]
            st2 == [st1 EXCEPT !.users[u] = us1]
        IN  IF us.amount > 0 /\ settled = None THEN Fail("MathOverflow", st1)
            ELSE IF ~TransferOk(st.wallet[u], amount)
                 THEN Fail("TransferFailed", st2)
            ELSE
            LET st3 == [st2 EXCEPT !.wallet[u] = @ - amount,
                                   !.staking_vault = @ + amount]
                new_amount == CheckedAdd64(us1.amount, amount)
                us2 == [us1 EXCEPT !.amount = new_amount,
                                   !.reward_per_token_paid =
                                        upd.pool.reward_per_token_stored,
                                   !.last_stake_time = t]
                st4 == [st3 EXCEPT !.users[u] = us2]
                new_total == CheckedAdd64(upd.pool.total_staked, amount)
            IN  IF new_amount = None THEN Fail("MathOverflow", st3)
                ELSE IF new_total = None THEN Fail("MathOverflow", st4)
                ELSE Done([st4 EXCEPT !.pool.total_staked = new_total], 0)

\* variant: a cooldown may be started for more than the user holds
K_initiate_unstake_unchecked(st, u, amount, t) ==
    LET us == st.users[u]
    IN  IF ~(amount > 0) THEN Fail("InvalidAmount", st)
        ELSE IF ~(us.cooldown_end = 0) THEN Fail("CooldownActive", st)
        ELSE Done([st EXCEPT !.users[u].cooldown_amount = amount,
                             !.users[u].cooldown_end = t + COOLDOWN_DURATION],
                  0)

\* initiate_unstake(amount) by user u at time t
\* variant: a new cooldown may replace one that is still running
K_initiate_unstake_restarting(st, u, amount, t) ==
    LET us == st.users[u]
    IN  IF ~(amount > 0) THEN Fail("InvalidAmount", st)
        ELSE IF ~(amount <= us.amount) THEN Fail("InsufficientStake", st)
        ELSE
        LET upd == K_update_rewards(st.pool, t)
            st1 == [st EXCEPT !.pool = upd.pool]
            pending == K_calculate_pending_rewards(upd.pool, us)
            settled == CheckedAdd64(us.pending_rewards, pending)
            us1 == [us EXCEPT !.pending_rewards = settled,
                              !.reward_per_token_paid =
                                   upd.pool.reward_per_token_stored,
                              !.cooldown_amount = amount,
                              !.cooldown_end = t + COOLDOWN_DURATION]
        IN  IF upd.err # "Ok" THEN Fail(upd.err, st1)
            ELSE IF settled = None THEN Fail("MathOverflow", st1)
            ELSE Done([st1 EXCEPT !.users[u] = us1], 0)

K_initiate_unstake(st, u, amount, t) ==
    LET us == st.users[u]
    IN  IF ~(amount > 0) THEN Fail("InvalidAmount", st)
        ELSE IF ~(amount <= us.amount) THEN Fail("InsufficientStake", st)
        ELSE IF ~(us.cooldown_end = 0) THEN Fail("CooldownActive", st)
        ELSE
        LET upd == K_update_rewards(st.pool, t)
            st1 == [st EXCEPT !.pool = upd.pool]
            pending == K_calculate_pending_rewards(upd.pool, us)
            settled == CheckedAdd64(us.pending_rewards, pending)
            us1 == [us EXCEPT !.pending_rewards = settled,
                              !.reward_per_token_paid =
                                   upd.pool.reward_per_token_stored,
                              !.cooldown_amount = amount,
                              !.cooldown_end = t + COOLDOWN_DURATION]
        IN  IF upd.err # "Ok" THEN Fail(upd.err, st1)
            ELSE IF settled = None THEN Fail("MathOverflow", st1)
            ELSE Done([st1 EXCEPT !.users[u] = us1], 0)

\* a completion that does not look at cooldown_end
K_complete_unstake_ungated(st, u, t) ==
    LET us == st.users[u]
        amount == us.cooldown_amount
    IN  IF ~(amount > 0) THEN Fail("NoCooldownActive", st)
        ELSE IF ~TransferOk(st.staking_vault, amount)
             THEN Fail("TransferFailed", st)
        ELSE Done([st EXCEPT !.staking_vault = @ - amount,
                             !.wallet[u] = @ + amount,
                             !.users[u].amount = @ - amount,
                             !.users[u].cooldown_amount = 0,
                             !.users[u].cooldown_end = 0,
                             !.pool.total_staked = @ - amount], 0)

\* variant: a full unstake leaves stake_start_time where it was
K_complete_unstake_keeps_start(st, u, t) ==
    LET us == st.users[u]
    IN  IF ~(us.cooldown_amount > 0) THEN Fail("NoCooldownActive", st)
        ELSE IF ~(t >= us.cooldown_end) THEN Fail("CooldownNotComplete", st)
        ELSE
        LET amount == us.cooldown_amount
            upd == K_update_rewards(st.pool, t)
            st1 == [st EXCEPT !.pool = upd.pool]
            pending == K_calculate_pending_rewards(upd.pool, us)
            settled == CheckedAdd64(us.pending_rewards, pending)
            us1 == [us EXCEPT !.pending_rewards = settled]
            st2 == [st1 EXCEPT !.users[u] = us1]
        IN  IF upd.err # "Ok" THEN Fail(upd.err, st1)
            ELSE IF settled = None THEN Fail("MathOverflow", st1)
            ELSE IF ~TransferOk(st.staking_vault, amount)
                 THEN Fail("TransferFailed", st2)
            ELSE
            LET st3 == [st2 EXCEPT !.staking_vault = @ - amount,
                                   !.wallet[u] = @ + amount]
                new_amount == CheckedSub64(us1.amount, amount)
                us2 == [us1 EXCEPT
                          !.amount = new_amount,
                          !.cooldown_amount = 0,
                          !.cooldown_end = 0,
                          !.reward_per_token_paid =
                               upd.pool.reward_per_token_stored,
                          !.stake_start_time =
                               @]
                st4 == [st3 EXCEPT !.users[u] = us2]
                new_total == CheckedSub64(upd.pool.total_staked, amount)
            IN  IF new_amount = None THEN Fail("MathOverflow", st3)
                ELSE IF new_total = None THEN Fail("MathOverflow", st4)
                ELSE Done([st4 EXCEPT !.pool.total_staked = new_total], 0)

\* variant: the returned amount stays in pool.total_staked
K_complete_unstake_keeps_total(st, u, t) ==
    LET us == st.users[u]
    IN  IF ~(us.cooldown_amount > 0) THEN Fail("NoCooldownActive", st)
        ELSE IF ~(t >= us.cooldown_end) THEN Fail("CooldownNotComplete", st)
        ELSE
        LET amount == us.cooldown_amount
            upd == K_update_rewards(st.pool, t)
            st1 == [st EXCEPT !.pool = upd.pool]
            pending == K_calculate_pending_rewards(upd.pool, us)
            settled == CheckedAdd64(us.pending_rewards, pending)
            us1 == [us EXCEPT !.pending_rewards = settled]
            st2 == [st1 EXCEPT !.users[u] = us1]
        IN  IF upd.err # "Ok" THEN Fail(upd.err, st1)
            ELSE IF settled = None THEN Fail("MathOverflow", st1)
            ELSE IF ~TransferOk(st.staking_vault, amount)
                 THEN Fail("TransferFailed", st2)
            ELSE
            LET st3 == [st2 EXCEPT !.staking_vault = @ - amount,
                                   !.wallet[u] = @ + amount]
                new_amount == CheckedSub64(us1.amount, amount)
                us2 == [us1 EXCEPT
                          !.amount = new_amount,
                          !.cooldown_amount = 0,
                          !.cooldown_end = 0,
                          !.reward_per_token_paid =
                               upd.pool.reward_per_token_stored,
                          !.stake_start_time =
                               IF new_amount = 0 THEN 0 ELSE @]
                st4 == [st3 EXCEPT !.users[u] = us2]
                new_total == upd.pool.total_staked
            IN  IF new_amount = None THEN Fail("MathOverflow", st3)
                ELSE IF new_total = None THEN Fail("MathOverflow", st4)
                ELSE Done([st4 EXCEPT !.pool.total_staked = new_total], 0)

\* complete_unstake() by user u at time t
K_complete_unstake(st, u, t) ==
    LET us == st.users[u]
    IN  IF ~(us.cooldown_amount > 0) THEN Fail("NoCooldownActive", st)
        ELSE IF ~(t >= us.cooldown_end) THEN Fail("CooldownNotComplete", st)
        ELSE
        LET amount == us.cooldown_amount
            upd == K_update_rewards(st.pool, t)
            st1 == [st EXCEPT !.pool = upd.pool]
            pending == K_calculate_pending_rewards(upd.pool, us)
            settled == CheckedAdd64(us.pending_rewards, pending)
            us1 == [us EXCEPT !.pending_rewards = settled]
            st2 == [st1 EXCEPT !.users[u] = us1]
        IN  IF upd.err # "Ok" THEN Fail(upd.err, st1)
            ELSE IF settled = None THEN Fail("MathOverflow", st1)
            ELSE IF ~TransferOk(st.staking_vault, amount)
                 THEN Fail("TransferFailed", st2)
            ELSE
            LET st3 == [st2 EXCEPT !.staking_vault = @ - amount,
                                   !.wallet[u] = @ + amount]
                new_amount == CheckedSub64(us1.amount, amount)
                us2 == [us1 EXCEPT
                          !.amount = new_amount,
                          !.cooldown_amount = 0,
                          !.cooldown_end = 0,
                          !.reward_per_token_paid =
                               upd.pool.reward_per_token_stored,
                          !.stake_start_time =
                               IF new_amount = 0 THEN 0 ELSE @]
                st4 == [st3 EXCEPT !.users[u] = us2]
                new_total == CheckedSub64(upd.pool.total_staked, amount)
            IN  IF new_amount = None THEN Fail("MathOverflow", st3)
                ELSE IF new_total = None THEN Fail("MathOverflow", st4)
                ELSE Done([st4 EXCEPT !.pool.total_staked = new_total], 0)

\* variant: a claim leaves reward_per_token_paid where it was
K_claim_rewards_keeps_debt(st, u, t) ==
    LET us == st.users[u]
        upd == K_update_rewards(st.pool, t)
        st1 == [st EXCEPT !.pool = upd.pool]
        pending == K_calculate_pending_rewards(upd.pool, us)
        total_rewards == CheckedAdd64(us.pending_rewards, pending)
    IN  IF upd.err # "Ok" THEN Fail(upd.err, st1)
        ELSE IF total_rewards = None THEN Fail("MathOverflow", st1)
        ELSE IF ~(total_rewards > 0) THEN Fail("NoRewardsToClaim", st1)
        ELSE
        LET multiplier == K_get_time_multiplier(us.stake_start_time, t)
            final_rewards ==
                AsU64((total_rewards * multiplier) \div MULTIPLIER_PRECISION)
            claimed == CheckedAdd64(us.total_rewards_claimed, final_rewards)
            st2 == [st1 EXCEPT !.reward_vault = @ - final_rewards]
            us1 == [us EXCEPT !.pending_rewards = 0,
                              !.total_rewards_claimed = claimed]
        IN  IF ~(st.reward_vault >= final_rewards)
            THEN Fail("InsufficientRewardBalance", st1)
            ELSE IF claimed = None
                 THEN Fail("MathOverflow",
                           [st2 EXCEPT !.users[u].pending_rewards = 0,
                                       !.users[u].reward_per_token_paid =
                                            upd.pool.reward_per_token_stored])
            ELSE Done([st2 EXCEPT !.users[u] = us1], final_rewards)

\* claim_rewards() by user u at time t
K_claim_rewards(st, u, t) ==
    LET us == st.users[u]
        upd == K_update_rewards(st.pool, t)
        st1 == [st EXCEPT !.pool = upd.pool]
        pending == K_calculate_pending_rewards(upd.pool, us)
        total_rewards == CheckedAdd64(us.pending_rewards, pending)
    IN  IF upd.err # "Ok" THEN Fail(upd.err, st1)
        ELSE IF total_rewards = None THEN Fail("MathOverflow", st1)
        ELSE IF ~(total_rewards > 0) THEN Fail("NoRewardsToClaim", st1)
        ELSE
        LET multiplier == K_get_time_multiplier(us.stake_start_time, t)
            final_rewards ==
                AsU64((total_rewards * multiplier) \div MULTIPLIER_PRECISION)
            claimed == CheckedAdd64(us.total_rewards_claimed, final_rewards)
            st2 == [st1 EXCEPT !.reward_vault = @ - final_rewards]
            us1 == [us EXCEPT !.pending_rewards = 0,
                              !.reward_per_token_paid =
                                   upd.pool.reward_per_token_stored,
                              !.total_rewards_claimed = claimed]
        IN  IF ~(st.reward_vault >= final_rewards)
            THEN Fail("InsufficientRewardBalance", st1)
            ELSE IF claimed = None
                 THEN Fail("MathOverflow",
                           [st2 EXCEPT !.users[u].pending_rewards = 0,
                                       !.users[u].reward_per_token_paid =
                                            upd.pool.reward_per_token_stored])
            ELSE Done([st2 EXCEPT !.users[u] = us1], final_rewards)

\* deposit_rewards(amount) by signer
K_deposit_rewards(st, signer, amount) ==
    IF signer # Authority THEN Fail("ConstraintHasOne", st)
    ELSE IF ~(amount > 0) THEN Fail("InvalidAmount", st)
    ELSE Done([st EXCEPT !.reward_vault = @ + amount], 0)

\* variant: the new rate is stored first and the settlement runs with it
K_update_reward_rate_retroactive(st, signer, new_rate, t) ==
    IF signer # Authority THEN Fail("ConstraintHasOne", st)
    ELSE
    LET upd == K_update_rewards([st.pool EXCEPT !.reward_rate = new_rate], t)
        st1 == [st EXCEPT !.pool = upd.pool]
    IN  IF upd.err # "Ok" THEN Fail(upd.err, st1) ELSE Done(st1, 0)

\* update_reward_rate(new_rate) by signer at time t
K_update_reward_rate(st, signer, new_rate, t) ==
    IF signer # Authority THEN Fail("ConstraintHasOne", st)
    ELSE
    LET upd == K_update_rewards(st.pool, t)
        st1 == [st EXCEPT !.pool = upd.pool]
    IN  IF upd.err # "Ok" THEN Fail(upd.err, st1)
        ELSE Done([st1 EXCEPT !.pool.reward_rate = new_rate], 0)

\* set_paused(paused) by signer
K_set_paused(st, signer, paused) ==
    IF signer # Authority THEN Fail("ConstraintHasOne", st)
    ELSE Done([st EXCEPT !.pool.paused = paused], 0)

\* emergency_withdraw() by signer: the whole vault goes to the destination
K_emergency_withdraw(st, signer) ==
    IF signer # Authority THEN Fail("ConstraintHasOne", st)
    ELSE IF ~(st.staking_vault > 0) THEN Fail("NoTokensToWithdraw", st)
    ELSE Done([st EXCEPT !.staking_vault = 0], st.staking_vault)

(***************************************************************************)
(* staking (weight-based accumulator)                                      *)
(***************************************************************************)
W_NewUserStake ==
    [amount |-> 0, weight |-> 0, stake_time |-> 0, reward_debt |-> 0,
     pending_rewards |-> 0, unstake_time |-> 0]

\* initialize(reward_rate, cooldown_days)
W_initialize(reward_rate, cooldown_days, t) ==
    [pool |-> [reward_rate |-> reward_rate,
               cooldown_seconds |-> cooldown_days * SECONDS_PER_DAY,
               total_staked |-> 0, total_weight |-> 0,
               last_update |-> t, reward_per_weight |-> 0],
     users |-> [u \in Users |-> W_NewUserStake],
     stake_vault |-> 0,
     wallet |-> [u \in Users |-> InitialWallet],
     reward_vault |-> InitialRewardVault]

\* calculate_multiplier (scale 100)
W_calculate_multiplier(days) ==
    IF days >= 90 THEN 250
    ELSE IF days >= 30 THEN 200
    ELSE IF days >= 7 THEN 150
    ELSE 100

\* a settlement that grows the accumulator without advancing last_update
W_update_pool_rewards_stale_clock(pool, current_time) ==
    IF pool.total_weight = 0
    THEN [err |-> "Ok", pool |-> [pool EXCEPT !.last_update = current_time]]
    ELSE
    LET time_elapsed == current_time - pool.last_update
        rewards == CheckedMul128(time_elapsed, pool.reward_rate)
        scaled == IF rewards = None THEN None
                  ELSE CheckedMul128(rewards, RPW_SCALE)
        stored == IF scaled = None THEN None
                  ELSE CheckedAdd128(pool.reward_per_weight,
                                     scaled \div pool.total_weight)
    IN  IF time_elapsed = 0 THEN [err |-> "Ok", pool |-> pool]
        ELSE IF stored = None THEN [err |-> "Overflow", pool |-> pool]
        ELSE [err |-> "Ok",
              pool |-> [pool EXCEPT !.reward_per_weight = stored]]

\* update_pool_rewards: [err, pool]
W_update_pool_rewards(pool, current_time) ==
    IF pool.total_weight = 0
    THEN [err |-> "Ok", pool |-> [pool EXCEPT !.last_update = current_time]]
    ELSE
    LET time_elapsed == current_time - pool.last_update
        rewards == CheckedMul128(time_elapsed, pool.reward_rate)
        scaled == IF rewards = None THEN None
                  ELSE CheckedMul128(rewards, RPW_SCALE)
        stored == IF scaled = None THEN None
                  ELSE CheckedAdd128(pool.reward_per_weight,
                                     scaled \div pool.total_weight)
    IN  IF time_elapsed = 0 THEN [err |-> "Ok", pool |-> pool]
        ELSE IF stored = None THEN [err |-> "Overflow", pool |-> pool]
        ELSE [err |-> "Ok",
              pool |-> [pool EXCEPT !.reward_per_weight = stored,
                                    !.last_update = current_time]]

\* variant: the quotient is rounded up
W_Accumulated_rounded_up(weight, reward_per_weight) ==
    LET product == CheckedMul128(weight, reward_per_weight)
    IN  IF product = None THEN None
        ELSE AsU64((product + RPW_SCALE - 1) \div RPW_SCALE)

\* weight * reward_per_weight / 1e12 as u64; None when the product overflows
W_Accumulated(weight, reward_per_weight) ==
    LET product == CheckedMul128(weight, reward_per_weight)
    IN  IF product = None THEN None ELSE AsU64(product \div RPW_SCALE)

\* calculate_pending; None on overflow
W_calculate_pending(pool, user_stake) ==
    LET accumulated == W_Accumulated(user_stake.weight, pool.reward_per_weight)
    IN  IF accumulated = None THEN None
        ELSE SatSub(accumulated, user_stake.reward_debt)

\* amount * multiplier / 100 as u64
W_Weight(amount, multiplier) == AsU64((amount * multiplier) \div 100)

\* stake(amount) by user u at time t
W_stake(st, u, amount, t) ==
    IF ~(amount > 0) THEN Fail("InvalidAmount", st)
    ELSE
    LET upd == W_update_pool_rewards(st.pool, t)
        st1 == [st EXCEPT !.pool = upd.pool]
        us  == st.users[u]
        pending == W_calculate_pending(upd.pool, us)
        settled == IF pending = None THEN None
                   ELSE CheckedAdd64(us.pending_rewards, pending)
        us1 == IF us.amount = 0
               THEN [us EXCEPT !.stake_time = t, !.reward_debt = 0,
                               !.pending_rewards = 0, !.unstake_time = 0]
               ELSE [us EXCEPT !.pending_rewards = settled]
        st2 == [st1 EXCEPT !.users[u] = us1]
    IN  IF upd.err # "Ok" THEN Fail(upd.err, st1)
        ELSE IF us.amount # 0 /\ settled = None THEN Fail("Overflow", st1)
        ELSE IF ~TransferOk(st.wallet[u], amount)
             THEN Fail("TransferFailed", st2)
        ELSE
        LET st3 == [st2 EXCEPT !.wallet[u] = @ - amount,
                               !.stake_vault = @ + amount]
            multiplier == W_calculate_multiplier(0)
            weight == W_Weight(amount, multiplier)
            new_amount == CheckedAdd64(us1.amount, amount)
            new_weight == CheckedAdd64(us1.weight, weight)
            debt == IF new_weight = None THEN None
                    ELSE W_Accumulated(new_weight, upd.pool.reward_per_weight)
            us2 == [us1 EXCEPT !.amount = new_amount,
                               !.weight = new_weight,
                               !.reward_debt = debt]
            st4 == [st3 EXCEPT !.users[u] = us2]
            new_total == CheckedAdd64(upd.pool.total_staked, amount)
            new_total_weight == CheckedAdd64(upd.pool.total_weight, weight)
        IN  IF new_amount = None \/ new_weight = None \/ debt = None
            THEN Fail("Overflow", st3)
            ELSE IF new_total = None \/ new_total_weight = None
                 THEN Fail("Overflow", st4)
            ELSE Done([st4 EXCEPT !.pool.total_staked = new_total,
                                  !.pool.total_weight = new_total_weight], 0)

\* request_unstake() by user u at time t
W_request_unstake(st, u, t) ==
    LET us == st.users[u]
    IN  IF ~(us.amount > 0) THEN Fail("NoStake", st)
        ELSE IF ~(us.unstake_time = 0) THEN Fail("AlreadyUnstaking", st)
        ELSE Done([st EXCEPT !.users[u].unstake_time = t], 0)

\* unstake() by user u at time t
W_unstake(st, u, t) ==
    LET us == st.users[u]
    IN  IF ~(us.amount > 0) THEN Fail("NoStake", st)
        ELSE IF ~(us.unstake_time > 0) THEN Fail("UnstakeNotRequested", st)
        ELSE IF ~(t >= us.unstake_time + st.pool.cooldown_seconds)
             THEN Fail("CooldownNotComplete", st)
        ELSE
        LET upd == W_update_pool_rewards(st.pool, t)
            st1 == [st EXCEPT !.pool = upd.pool]
            pending == W_calculate_pending(upd.pool, us)
            total_rewards == IF pending = None THEN None
                             ELSE CheckedAdd64(us.pending_rewards, pending)
            amount == us.amount
            weight == us.weight
            st2 == [st1 EXCEPT
                      !.pool.total_staked = SatSub(@, amount),
                      !.pool.total_weight = SatSub(@, weight)]
        IN  IF upd.err # "Ok" THEN Fail(upd.err, st1)
            ELSE IF total_rewards = None THEN Fail("Overflow", st1)
            ELSE IF ~TransferOk(st.stake_vault, amount)
                 THEN Fail("TransferFailed", st2)
            ELSE IF ~TransferOk(st.reward_vault, total_rewards)
                 THEN Fail("LamportUnderflow",
                           [st2 EXCEPT !.stake_vault = @ - amount,
                                       !.wallet[u] = @ + amount])
            ELSE Done([st2 EXCEPT !.stake_vault = @ - amount,
                                  !.wallet[u] = @ + amount,
                                  !.reward_vault = @ - total_rewards,
                                  !.users[u] = W_NewUserStake],
                      total_rewards)

\* a claim that raises the user's weight but not the pool's
W_claim_rewards_keeps_total(st, u, t) ==
    LET us == st.users[u]
        days_staked == (t - us.stake_time) \div SECONDS_PER_DAY
        new_weight == W_Weight(us.amount, W_calculate_multiplier(days_staked))
    IN  IF ~(us.amount > 0) THEN Fail("NoStake", st)
        ELSE IF ~(new_weight > us.weight) THEN Fail("NoRewards", st)
        ELSE Done([st EXCEPT !.users[u].weight = new_weight], 0)

\* claim_rewards() by user u at time t
W_claim_rewards(st, u, t) ==
    LET us == st.users[u]
    IN  IF ~(us.amount > 0) THEN Fail("NoStake", st)
        ELSE
        LET upd == W_update_pool_rewards(st.pool, t)
            st1 == [st EXCEPT !.pool = upd.pool]
            days_staked == (t - us.stake_time) \div SECONDS_PER_DAY
            new_multiplier == W_calculate_multiplier(days_staked)
            new_weight == W_Weight(us.amount, new_multiplier)
            grows == new_weight > us.weight
            total_weight ==
                IF grows
                THEN CheckedAdd64(upd.pool.total_weight,
                                  new_weight - us.weight)
                ELSE upd.pool.total_weight
            us1 == IF grows THEN [us EXCEPT !.weight = new_weight] ELSE us
            pool1 == [upd.pool EXCEPT !.total_weight = total_weight]
            st2 == [st1 EXCEPT !.pool = pool1, !.users[u] = us1]
            pending == W_calculate_pending(pool1, us1)
            total_rewards == IF pending = None THEN None
                             ELSE CheckedAdd64(us.pending_rewards, pending)
            debt == W_Accumulated(us1.weight, pool1.reward_per_weight)
        IN  IF upd.err # "Ok" THEN Fail(upd.err, st1)
            ELSE IF total_weight = None THEN Fail("Overflow", st1)
            ELSE IF total_rewards = None THEN Fail("Overflow", st2)
            ELSE IF ~(total_rewards > 0) THEN Fail("NoRewards", st2)
            ELSE IF ~TransferOk(st.reward_vault, total_rewards)
                 THEN Fail("LamportUnderflow", st2)
            ELSE IF debt = None
                 THEN Fail("Overflow",
                           [st2 EXCEPT !.reward_vault = @ - total_rewards])
            ELSE Done([st2 EXCEPT !.reward_vault = @ - total_rewards,
                                  !.users[u].reward_debt = debt,
                                  !.users[u].pending_rewards = 0],
                      total_rewards)

\* deposit_rewards(amount) by signer
W_deposit_rewards(st, signer, amount) ==
    IF signer # Authority THEN Fail("ConstraintRaw", st)
    ELSE IF ~(amount > 0) THEN Fail("InvalidAmount", st)
    ELSE Done([st EXCEPT !.reward_vault = @ + amount], 0)

\* update_reward_rate(new_rate) by signer at time t
W_update_reward_rate(st, signer, new_rate, t) ==
    IF signer # Authority THEN Fail("ConstraintRaw", st)
    ELSE
    LET upd == W_update_pool_rewards(st.pool, t)
        st1 == [st EXCEPT !.pool = upd.pool]
    IN  IF upd.err # "Ok" THEN Fail(upd.err, st1)
        ELSE Done([st1 EXCEPT !.pool.reward_rate = new_rate], 0)

(***************************************************************************)
(* staking: emergency controls (emergency.rs over the records of state.rs) *)
(***************************************************************************)
Admins == {"a1", "a2", "a3"}
E_Signers == Admins \cup Users

CriticalActions == {"Resume", "AdminWithdraw", "GradualShutdown"}

\* AdminAuthority::is_admin / can_emergency / can_critical
is_admin(admin, key) ==
    \/ key = admin.primary_admin
    \/ key = admin.secondary_admin
    \/ key = admin.emergency_admin
can_emergency(admin, key) == is_admin(admin, key)
\* variant: every admin identity may perform critical actions
can_critical_any_admin(admin, key) == is_admin(admin, key)
can_critical(admin, key) == key = admin.primary_admin

\* validate_emergency_authority / validate_critical_authority
validate_emergency_authority(admin, signer) == can_emergency(admin, signer)
validate_critical_authority(admin, signer) == can_critical(admin, signer)

\* a PendingEmergencyAction account as allocated (zeroed)
E_NoPending ==
    [action |-> "PauseNewStakes", proposer |-> "none", proposed_at |-> 0,
     expires_at |-> 0, approvals |-> <<>>, required_approvals |-> 0,
     executed |-> FALSE]

E_NoShutdown ==
    [initiated_at |-> 0, shutdown_at |-> 0, allow_new_stakes |-> FALSE,
     allow_unstakes |-> FALSE, allow_claims |-> FALSE]

Range(seq) == {seq[i] : i \in 1..Len(seq)}

\* sum of a field over all users' records
RECURSIVE SumOver(_, _, _)
SumOver(records, field, who) ==
    IF who = {} THEN 0
    ELSE LET u == CHOOSE x \in who : TRUE
         IN  records[u][field] + SumOver(records, field, who \ {u})
Sum(records, field) == SumOver(records, field, Users)

\* PendingEmergencyAction::is_approved / has_approved
is_approved_strict(pending) == Len(pending.approvals) > pending.required_approvals
is_approved(pending) == Len(pending.approvals) >= pending.required_approvals
has_approved_never(pending, key) == FALSE
has_approved(pending, key) == key \in Range(pending.approvals)

\* pause_new_stakes
pause_new_stakes(st, signer) ==
    IF ~validate_emergency_authority(st.admin, signer)
    THEN Fail("Unauthorized", st)
    ELSE Done([st EXCEPT !.global_pool.is_paused = TRUE], 0)

\* variant: the pause is lifted and emergency mode is left on
unpause_keeps_emergency_mode(st, signer) ==
    IF ~validate_critical_authority(st.admin, signer)
    THEN Fail("Unauthorized", st)
    ELSE Done([st EXCEPT !.global_pool.is_paused = FALSE], 0)

\* unpause
unpause(st, signer) ==
    IF ~validate_critical_authority(st.admin, signer)
    THEN Fail("Unauthorized", st)
    ELSE Done([st EXCEPT !.global_pool.is_paused = FALSE,
                         !.global_pool.emergency_mode = FALSE], 0)

\* enable_emergency_mode
enable_emergency_mode(st, signer) ==
    IF ~validate_emergency_authority(st.admin, signer)
    THEN Fail("Unauthorized", st)
    ELSE Done([st EXCEPT !.global_pool.is_paused = TRUE,
                         !.global_pool.emergency_mode = TRUE], 0)

\* emergency_unstake on the stake record of `holder`, signed by `user`
emergency_unstake_unguarded(st, holder, user) ==
    LET amount == st.stakes[holder].staked_amount
    IN  Done([st EXCEPT
                !.stakes[holder].staked_amount = 0,
                !.stakes[holder].pending_rewards = 0,
                !.global_pool.total_staked = SatSub(@, amount),
                !.global_pool.total_stakers = SatSub(@, 1)],
             amount)

emergency_unstake(st, holder, user) ==
    IF ~st.global_pool.emergency_mode THEN Fail("NotInEmergencyMode", st)
    ELSE IF ~(st.stakes[holder].owner = user) THEN Fail("Unauthorized", st)
    ELSE
    LET amount == st.stakes[holder].staked_amount
    IN  Done([st EXCEPT
                !.stakes[holder].staked_amount = 0,
                !.stakes[holder].pending_rewards = 0,
                !.global_pool.total_staked = SatSub(@, amount),
                !.global_pool.total_stakers = SatSub(@, 1)],
             amount)

\* variant that accepts a paused pool without emergency mode
admin_emergency_withdraw_paused_only(st, signer) ==
    IF ~validate_critical_authority(st.admin, signer)
    THEN Fail("Unauthorized", st)
    ELSE IF ~st.global_pool.is_paused
         THEN Fail("NotInEmergencyMode", st)
    ELSE Done2([st EXCEPT !.global_pool.total_staked = 0,
                          !.global_pool.total_stakers = 0,
                          !.fee_vault.pending_distribution = 0],
               st.global_pool.total_staked,
               st.fee_vault.pending_distribution)

\* admin_emergency_withdraw: returns (staked_amount, vault_balance)
admin_emergency_withdraw(st, signer) ==
    IF ~validate_critical_authority(st.admin, signer)
    THEN Fail("Unauthorized", st)
    ELSE IF ~(st.global_pool.emergency_mode /\ st.global_pool.is_paused)
         THEN Fail("NotInEmergencyMode", st)
    ELSE Done2([st EXCEPT !.global_pool.total_staked = 0,
                          !.global_pool.total_stakers = 0,
                          !.fee_vault.pending_distribution = 0],
               st.global_pool.total_staked,
               st.fee_vault.pending_distribution)

\* initiate_gradual_shutdown at time t
initiate_gradual_shutdown(st, signer, t) ==
    IF ~validate_critical_authority(st.admin, signer)
    THEN Fail("Unauthorized", st)
    ELSE
    LET seven_days == 7 * SECONDS_PER_DAY
    IN  Done([st EXCEPT
                !.shutdown = [initiated_at |-> t,
                              shutdown_at |-> t + seven_days,
                              allow_new_stakes |-> FALSE,
                              allow_unstakes |-> TRUE,
                              allow_claims |-> TRUE],
                !.global_pool.is_paused = TRUE], 0)

\* require_staking_allowed / require_claiming_allowed: the error, or "Ok"
require_staking_allowed(global_pool) ==
    IF global_pool.is_paused THEN "StakingPaused"
    ELSE IF global_pool.emergency_mode THEN "InEmergencyMode"
    ELSE "Ok"
require_unstaking_allowed(global_pool) == "Ok"
require_claiming_allowed(global_pool) ==
    IF global_pool.emergency_mode THEN "InEmergencyMode" ELSE "Ok"

\* a proposal that lives 24 hours
ProposalLifetime24h == SECONDS_PER_DAY

\* the proposal's lifetime: 48 hours
ProposalLifetime == (48 * SECONDS_PER_DAY) \div 24

\* propose_emergency_action at time t
propose_emergency_action(st, signer, action, t) ==
    IF ~is_admin(st.admin, signer) THEN Fail("Unauthorized", st)
    ELSE Done([st EXCEPT
                 !.pending = [action |-> action,
                              proposer |-> signer,
                              proposed_at |-> t,
                              expires_at |-> t + ProposalLifetime,
                              approvals |-> <<signer>>,
                              required_approvals |->
                                  st.admin.required_signatures,
                              executed |-> FALSE]], 0)

\* approve_emergency_action at time t: returns is_approved (1 / 0)
approve_emergency_action(st, signer, t) ==
    IF ~is_admin(st.admin, signer) THEN Fail("Unauthorized", st)
    ELSE IF st.pending.executed THEN Fail("AlreadyExecuted", st)
    ELSE IF ~(t < st.pending.expires_at) THEN Fail("ActionExpired", st)
    ELSE IF has_approved(st.pending, signer) THEN Fail("AlreadyApproved", st)
    ELSE
    LET st1 == [st EXCEPT !.pending.approvals = Append(@, signer)]
    IN  Done(st1, IF is_approved(st1.pending) THEN 1 ELSE 0)

(***************************************************************************)
(* staking: tiered reward calculation (reward_math.rs)                     *)
(***************************************************************************)
MULTIPLIER_BRONZE == 100
MULTIPLIER_SILVER == 150
MULTIPLIER_GOLD == 200
MULTIPLIER_DIAMOND == 250

TIER_BRONZE_END == 6
TIER_SILVER_END == 29
TIER_GOLD_END == 89

Min(a, b) == IF a <= b THEN a ELSE b
Max(a, b) == IF a >= b THEN a ELSE b

\* TierDurations::default() / TierRewards::default()
TierDurationsDefault ==
    [bronze_seconds |-> 0, silver_seconds |-> 0,
     gold_seconds |-> 0, diamond_seconds |-> 0]
TierRewardsDefault ==
    [bronze_rewards |-> 0, silver_rewards |-> 0,
     gold_rewards |-> 0, diamond_rewards |-> 0]

\* variant: the silver segment starts at the last claim even when that lies
\* in the bronze tier
calculate_tier_durations_overlapping(stake_start_time, last_claim_time, current_time) ==
    LET bronze_end == stake_start_time + (TIER_BRONZE_END + 1) * SECONDS_PER_DAY
        silver_end == stake_start_time + (TIER_SILVER_END + 1) * SECONDS_PER_DAY
        gold_end == stake_start_time + (TIER_GOLD_END + 1) * SECONDS_PER_DAY
        Span(start, end) == IF end > start THEN end - start ELSE 0
    IN  [bronze_seconds |->
            IF last_claim_time < bronze_end
            THEN Span(last_claim_time, Min(current_time, bronze_end))
            ELSE 0,
         silver_seconds |->
            IF current_time > bronze_end /\ last_claim_time < silver_end
            THEN Span(last_claim_time, Min(current_time, silver_end))
            ELSE 0,
         gold_seconds |->
            IF current_time > silver_end /\ last_claim_time < gold_end
            THEN Span(Max(last_claim_time, silver_end),
                      Min(current_time, gold_end))
            ELSE 0,
         diamond_seconds |->
            IF current_time > gold_end
            THEN Span(Max(last_claim_time, gold_end), current_time)
            ELSE 0]

\* the part of [last_claim_time, current_time] that falls in each tier of a
\* stake started at stake_start_time
calculate_tier_durations(stake_start_time, last_claim_time, current_time) ==
    LET bronze_end == stake_start_time + (TIER_BRONZE_END + 1) * SECONDS_PER_DAY
        silver_end == stake_start_time + (TIER_SILVER_END + 1) * SECONDS_PER_DAY
        gold_end == stake_start_time + (TIER_GOLD_END + 1) * SECONDS_PER_DAY
        Span(start, end) == IF end > start THEN end - start ELSE 0
    IN  [bronze_seconds |->
            IF last_claim_time < bronze_end
            THEN Span(last_claim_time, Min(current_time, bronze_end))
            ELSE 0,
         silver_seconds |->
            IF current_time > bronze_end /\ last_claim_time < silver_end
            THEN Span(Max(last_claim_time, bronze_end),
                      Min(current_time, silver_end))
            ELSE 0,
         gold_seconds |->
            IF current_time > silver_end /\ last_claim_time < gold_end
            THEN Span(Max(last_claim_time, silver_end),
                      Min(current_time, gold_end))
            ELSE 0,
         diamond_seconds |->
            IF current_time > gold_end
            THEN Span(Max(last_claim_time, gold_end), current_time)
            ELSE 0]

\* variant: the quotient is cut to its low word instead of u64::MAX
calculate_tier_reward_truncating(stake_amount, reward_rate, seconds, multiplier) ==
    LET Times(product, factor) ==
            IF product = None THEN None ELSE CheckedMul128(product, factor)
        Quotient(numerator) ==
            IF numerator = None THEN None
            ELSE AsU64(numerator \div (PRECISION * 100))
    IN  Quotient(Times(Times(CheckedMul128(stake_amount, reward_rate),
                             seconds), multiplier))

\* stake * rate * seconds * multiplier / PRECISION / 100 in u128; None when a
\* product overflows, the quotient is cut to u64::MAX
calculate_tier_reward(stake_amount, reward_rate, seconds, multiplier) ==
    LET Times(product, factor) ==
            IF product = None THEN None ELSE CheckedMul128(product, factor)
        Quotient(numerator) ==
            IF numerator = None THEN None
            ELSE Min(numerator \div (PRECISION * 100), U64_MAX)
    IN  Quotient(Times(Times(CheckedMul128(stake_amount, reward_rate),
                             seconds), multiplier))

\* one reward per tier with time in it, each at max(tier multiplier, bonus);
\* a tier whose product overflows is None (the call then fails)
calculate_tier_rewards(stake_amount, reward_rate, durations, early_bonus) ==
    LET Tier(seconds, tier_multiplier) ==
            IF seconds > 0
            THEN calculate_tier_reward(stake_amount, reward_rate, seconds,
                                       Max(tier_multiplier, early_bonus))
            ELSE 0
    IN  [bronze_rewards |-> Tier(durations.bronze_seconds, MULTIPLIER_BRONZE),
         silver_rewards |-> Tier(durations.silver_seconds, MULTIPLIER_SILVER),
         gold_rewards |-> Tier(durations.gold_seconds, MULTIPLIER_GOLD),
         diamond_rewards |->
             Tier(durations.diamond_seconds, MULTIPLIER_DIAMOND)]

\* match days { 0..=6, 7..=29, 30..=89, _ }
get_multiplier_for_days(days) ==
    IF days >= 0 /\ days <= TIER_BRONZE_END THEN MULTIPLIER_BRONZE
    ELSE IF days >= TIER_BRONZE_END + 1 /\ days <= TIER_SILVER_END
    THEN MULTIPLIER_SILVER
    ELSE IF days >= TIER_SILVER_END + 1 /\ days <= TIER_GOLD_END
    THEN MULTIPLIER_GOLD
    ELSE MULTIPLIER_DIAMOND

RewardOutput(err, total, rewards, multiplier, durations) ==
    [err |-> err, total_pending_rewards |-> total,
     rewards_per_tier |-> rewards, effective_multiplier |-> multiplier,
     time_in_each_tier |-> durations]

RewardError(e) ==
    RewardOutput(e, 0, TierRewardsDefault, 0, TierDurationsDefault)

calculate_rewards(input) ==
    LET Plus(sum, reward) ==
            IF sum = None \/ reward = None THEN None
            ELSE CheckedAdd64(sum, reward)
        Output(tier_durations, tier_rewards, total) ==
            IF total = None THEN RewardError("Overflow")
            ELSE RewardOutput(
                     "Ok", total, tier_rewards,
                     Max(get_multiplier_for_days(
                             (input.current_time - input.stake_start_time)
                                 \div SECONDS_PER_DAY),
                         input.early_holder_bonus),
                     tier_durations)
        Total(tier_durations, tier_rewards) ==
            Output(tier_durations, tier_rewards,
                   Plus(Plus(Plus(tier_rewards.bronze_rewards,
                                  tier_rewards.silver_rewards),
                             tier_rewards.gold_rewards),
                        tier_rewards.diamond_rewards))
        Rewards(tier_durations) ==
            Total(tier_durations,
                  calculate_tier_rewards(input.user_stake_amount,
                                         input.global_reward_rate,
                                         tier_durations,
                                         input.early_holder_bonus))
    IN  IF input.current_time < input.last_claim_time
        THEN RewardError("InvalidTimeRange")
        ELSE IF input.stake_start_time > input.last_claim_time
        THEN RewardError("InvalidTimeRange")
        ELSE IF input.user_stake_amount = 0
        THEN RewardOutput("Ok", 0, TierRewardsDefault, MULTIPLIER_BRONZE,
                          TierDurationsDefault)
        ELSE Rewards(calculate_tier_durations(input.stake_start_time,
                                              input.last_claim_time,
                                              input.current_time))

\* rewards over [last_claim_time, rate_change_time] at old_rate plus rewards
\* over [rate_change_time, current_time] at new_rate
calculate_with_rate_change(input, rate_change_time, new_rate) ==
    LET Both(total) ==
            IF total = None THEN RewardError("Overflow")
            ELSE RewardOutput("Ok", total, TierRewardsDefault, 0,
                              TierDurationsDefault)
        Periods(period1, period2) ==
            IF period1.err # "Ok" THEN RewardError(period1.err)
            ELSE IF period2.err # "Ok" THEN RewardError(period2.err)
            ELSE Both(CheckedAdd64(period1.total_pending_rewards,
                                   period2.total_pending_rewards))
    IN  Periods(calculate_rewards(
                    [input EXCEPT !.current_time = rate_change_time]),
                calculate_rewards(
                    [input EXCEPT !.last_claim_time = rate_change_time,
                                  !.global_reward_rate = new_rate]))

(***************************************************************************)
(* The state machine                                                       *)
(***************************************************************************)
\* instants the clock visits: the first ticks after genesis, the tick before
\* the first cooldown ends, and the day marks that gate an operation
DayMarks == {CooldownDays, 7, 30, 90}
ClockTimes ==
    (Genesis .. Genesis + FineTicks)
    \cup {Genesis + CooldownDays * SECONDS_PER_DAY - 1}
    \cup {Genesis + d * SECONDS_PER_DAY : d \in DayMarks}

Amounts == 0 .. MaxAmount
Rates == 0 .. MaxRate

\* the last committed instruction and what it returned; a rejected
\* instruction commits nothing and leaves no record
Committed(op, signer, target, arg, res) ==
    [op |-> op, signer |-> signer, target |-> target, arg |-> arg,
     payout |-> res.payout, extra |-> res.extra]

NoOutcome ==
    [op |-> "none", signer |-> "none", target |-> "none", arg |-> 0,
     payout |-> 0, extra |-> 0]

E_Quiet ==
    [global_pool |-> [total_staked |-> 0, total_stakers |-> 0,
                      is_paused |-> FALSE, emergency_mode |-> FALSE],
     stakes |-> [u \in Users |->
                    [owner |-> u, staked_amount |-> 0, pending_rewards |-> 0]],
     fee_vault |-> [pending_distribution |-> 0],
     admin |-> [primary_admin |-> "a1", secondary_admin |-> "a2",
                emergency_admin |-> "a3", required_signatures |-> 2],
     shutdown |-> E_NoShutdown,
     pending |-> E_NoPending]

\* no reward calculation requested
M_Idle ==
    [op |-> "input",
     input |-> [user_stake_amount |-> 0, stake_start_time |-> 0,
                last_claim_time |-> 0, current_time |-> 0,
                global_reward_rate |-> 0, early_holder_bonus |-> 0],
     days |-> 0, rate_change_time |-> 0, new_rate |-> 0,
     out |-> RewardError("none")]

\* what has moved so far: lamports paid as rewards by the staking program
\* and the rewards its pool emitted (reward_rate * elapsed over the settled
\* intervals with total_weight > 0); principal handed out by the emergency
\* instructions since emergency mode was entered and the pool's principal at
\* that moment
NoLedger ==
    [rewards_paid |-> 0, rewards_emitted |-> 0,
     principal_returned |-> 0, principal_at_entry |-> 0]

\* the staking program's transfers out of the reward vault and the rewards
\* of the interval a committed instruction settled
W_Ledger(res) ==
    IF res.err # "Ok" THEN ledger
    ELSE LET pool == staking.pool
             settled == res.st.pool.last_update # pool.last_update
             rewards == IF settled /\ pool.total_weight > 0
                        THEN (now - pool.last_update) * pool.reward_rate
                        ELSE 0
         IN  [ledger EXCEPT !.rewards_paid = @ + res.payout,
                            !.rewards_emitted = @ + rewards]

\* the staked amounts returned by emergency_unstake and
\* admin_emergency_withdraw, counted from the entry into emergency mode
E_Ledger(op, res) ==
    IF res.err # "Ok" THEN ledger
    ELSE IF op = "enable_emergency_mode"
         THEN IF emerg.global_pool.emergency_mode THEN ledger
              ELSE [ledger EXCEPT
                      !.principal_returned = 0,
                      !.principal_at_entry = emerg.global_pool.total_staked]
    ELSE IF op \in {"emergency_unstake", "admin_emergency_withdraw"}
         THEN [ledger EXCEPT !.principal_returned = @ + res.payout]
    ELSE ledger

\* ticks and committed instructions a run may take
Budget == IF prog = "emergency" THEN E_MaxSteps ELSE MaxSteps

Tick ==
    /\ prog # "emergency"
    /\ steps < Budget
    /\ steps' = steps + 1
    /\ \E t \in ClockTimes : t > now /\ now' = t
    /\ last' = NoOutcome
    /\ UNCHANGED <<prog, kr8tiv, staking, emerg, calc, ledger>>

\* one instruction: the dispatcher persists the handler's records and the
\* instruction is recorded when it returned Ok
Step(res) ==
    /\ res.err = "Ok" => steps < Budget
    /\ steps' = IF res.err = "Ok" THEN steps + 1 ELSE steps
    /\ UNCHANGED <<now, prog, calc>>

Record(op, signer, target, arg, res) ==
    last' = IF res.err = "Ok" THEN Committed(op, signer, target, arg, res)
            ELSE last

\* ---- kr8tiv-staking instructions
K_Run(op, signer, arg, res) ==
    /\ prog = "kr8tiv"
    /\ Step(res)
    /\ kr8tiv' = Persist(kr8tiv, res)
    /\ Record(op, signer, signer, arg, res)
    /\ UNCHANGED <<staking, emerg, ledger>>

K_Stake ==
    \E u \in Users, amount \in Amounts :
        K_Run("stake", u, amount, K_stake(kr8tiv, u, amount, now))

K_InitiateUnstake ==
    \E u \in Users, amount \in Amounts :
        K_Run("initiate_unstake", u, amount,
              K_initiate_unstake(kr8tiv, u, amount, now))

K_CompleteUnstake ==
    \E u \in Users :
        K_Run("complete_unstake", u, 0, K_complete_unstake(kr8tiv, u, now))

K_ClaimRewards ==
    \E u \in Users :
        K_Run("claim_rewards", u, 0, K_claim_rewards(kr8tiv, u, now))

K_DepositRewards ==
    \E signer \in Signers, amount \in {0, DepositAmount} :
        /\ kr8tiv.reward_vault + amount <= MaxRewardVault
        /\ K_Run("deposit_rewards", signer, amount,
                 K_deposit_rewards(kr8tiv, signer, amount))

K_UpdateRewardRate ==
    \E signer \in Signers, new_rate \in Rates :
        K_Run("update_reward_rate", signer, new_rate,
              K_update_reward_rate(kr8tiv, signer, new_rate, now))

K_SetPaused ==
    \E signer \in Signers, paused \in BOOLEAN :
        K_Run("set_paused", signer, IF paused THEN 1 ELSE 0,
              K_set_paused(kr8tiv, signer, paused))

K_EmergencyWithdraw ==
    \E signer \in Signers :
        K_Run("emergency_withdraw", signer, 0,
              K_emergency_withdraw(kr8tiv, signer))

NextK ==
    \/ K_Stake
    \/ K_InitiateUnstake
    \/ K_CompleteUnstake
    \/ K_ClaimRewards
    \/ K_DepositRewards
    \/ K_UpdateRewardRate
    \/ K_SetPaused
    \/ K_EmergencyWithdraw

\* ---- staking instructions
W_Run(op, signer, arg, res) ==
    /\ prog = "staking"
    /\ Step(res)
    /\ staking' = Persist(staking, res)
    /\ Record(op, signer, signer, arg, res)
    /\ ledger' = W_Ledger(res)
    /\ UNCHANGED <<kr8tiv, emerg>>

W_Stake ==
    \E u \in Users, amount \in Amounts :
        W_Run("stake", u, amount, W_stake(staking, u, amount, now))

W_RequestUnstake ==
    \E u \in Users :
        W_Run("request_unstake", u, 0, W_request_unstake(staking, u, now))

W_Unstake ==
    \E u \in Users :
        W_Run("unstake", u, 0, W_unstake(staking, u, now))

W_ClaimRewards ==
    \E u \in Users :
        W_Run("claim_rewards", u, 0, W_claim_rewards(staking, u, now))

W_DepositRewards ==
    \E signer \in Signers, amount \in {0, DepositAmount} :
        /\ staking.reward_vault + amount <= MaxRewardVault
        /\ W_Run("deposit_rewards", signer, amount,
                 W_deposit_rewards(staking, signer, amount))

W_UpdateRewardRate ==
    \E signer \in Signers, new_rate \in Rates :
        W_Run("update_reward_rate", signer, new_rate,
              W_update_reward_rate(staking, signer, new_rate, now))

NextW ==
    \/ W_Stake
    \/ W_RequestUnstake
    \/ W_Unstake
    \/ W_ClaimRewards
    \/ W_DepositRewards
    \/ W_UpdateRewardRate

\* ---- emergency instructions
E_ClockTimes ==
    (Genesis .. Genesis + FineTicks)
    \cup {Genesis + ProposalLifetime - 1, Genesis + ProposalLifetime}
    \cup {Genesis + 7 * SECONDS_PER_DAY}

E_Tick ==
    /\ prog = "emergency"
    /\ steps < Budget
    /\ steps' = steps + 1
    /\ \E t \in E_ClockTimes : t > now /\ now' = t
    /\ last' = NoOutcome
    /\ UNCHANGED <<prog, kr8tiv, staking, emerg, calc, ledger>>

E_Run(op, signer, target, arg, res) ==
    /\ prog = "emergency"
    /\ Step(res)
    /\ emerg' = Persist(emerg, res)
    /\ Record(op, signer, target, arg, res)
    /\ ledger' = E_Ledger(op, res)
    /\ UNCHANGED <<kr8tiv, staking>>

E_PauseNewStakes ==
    \E signer \in E_Signers :
        E_Run("pause_new_stakes", signer, "pool", 0,
              pause_new_stakes(emerg, signer))

E_Unpause ==
    \E signer \in E_Signers :
        E_Run("unpause", signer, "pool", 0, unpause(emerg, signer))

E_EnableEmergencyMode ==
    \E signer \in E_Signers :
        E_Run("enable_emergency_mode", signer, "pool", 0,
              enable_emergency_mode(emerg, signer))

E_EmergencyUnstake ==
    \E holder \in Users, signer \in E_Signers :
        E_Run("emergency_unstake", signer, holder, 0,
              emergency_unstake(emerg, holder, signer))

E_AdminEmergencyWithdraw ==
    \E signer \in E_Signers :
        E_Run("admin_emergency_withdraw", signer, "pool", 0,
              admin_emergency_withdraw(emerg, signer))

E_InitiateGradualShutdown ==
    \E signer \in E_Signers :
        E_Run("initiate_gradual_shutdown", signer, "pool", 0,
              initiate_gradual_shutdown(emerg, signer, now))

E_Propose ==
    \E signer \in E_Signers, action \in CriticalActions :
        E_Run("propose_emergency_action", signer, action, 0,
              propose_emergency_action(emerg, signer, action, now))

E_Approve ==
    \E signer \in E_Signers :
        E_Run("approve_emergency_action", signer, "pending", 0,
              approve_emergency_action(emerg, signer, now))

NextE ==
    \/ E_Tick
    \/ E_PauseNewStakes
    \/ E_Unpause
    \/ E_EnableEmergencyMode
    \/ E_EmergencyUnstake
    \/ E_AdminEmergencyWithdraw
    \/ E_InitiateGradualShutdown
    \/ E_Propose
    \/ E_Approve

\* the records the emergency instructions start from: stakes made earlier,
\* the pool totals that go with them, and an admin configuration
E_Stakes ==
    {stakes \in [Users -> [owner : Users, staked_amount : Amounts,
                           pending_rewards : {0, 1}]] :
        /\ \A u \in Users : stakes[u].owner = u
        /\ stakes["u1"].staked_amount \in {0, MaxAmount}
        /\ stakes["u1"].pending_rewards = 1
        /\ stakes["u2"].staked_amount = 1
        /\ stakes["u2"].pending_rewards = 0}

E_Start(stakes, fees, secondary, emergency, required) ==
    [global_pool |->
        [total_staked |-> Sum(stakes, "staked_amount"),
         total_stakers |-> Cardinality({u \in Users : stakes[u].staked_amount > 0}),
         is_paused |-> FALSE, emergency_mode |-> FALSE],
     stakes |-> stakes,
     fee_vault |-> [pending_distribution |-> fees],
     admin |-> [primary_admin |-> "a1", secondary_admin |-> secondary,
                emergency_admin |-> emergency,
                required_signatures |-> required],
     shutdown |-> E_NoShutdown,
     pending |-> E_NoPending]

InitE ==
    /\ now = Genesis
    /\ steps = 0
    /\ prog = "emergency"
    /\ kr8tiv = K_initialize_pool(InitialRate, Genesis)
    /\ staking = W_initialize(InitialRate, CooldownDays, Genesis)
    /\ \E stakes \in E_Stakes, fees \in {DepositAmount},
          secondary \in {"a1", "a2"}, required \in 1 .. MaxRequired :
            emerg = E_Start(stakes, fees, secondary, "a3", required)
    /\ last = NoOutcome
    /\ calc = M_Idle
    /\ ledger = NoLedger

SpecE == InitE /\ [][NextE]_vars

Init ==
    /\ now = Genesis
    /\ steps = 0
    /\ prog \in {"kr8tiv", "staking"}
    /\ kr8tiv = K_initialize_pool(InitialRate, Genesis)
    /\ staking = W_initialize(InitialRate, CooldownDays, Genesis)
    /\ emerg = E_Quiet
    /\ last = NoOutcome
    /\ calc = M_Idle
    /\ ledger = NoLedger

Next == Tick \/ NextK \/ NextW

Spec == Init /\ [][Next]_vars

(***************************************************************************)
(* reward_math.rs as a machine: a run fixes one RewardCalculationInput and *)
(* applies one of the public functions to it.                              *)
(***************************************************************************)
\* claim and stake times: the first ticks and the ticks around each tier end
M_Starts == 0 .. FineTicks
M_Times ==
    M_Starts
    \cup {(e + 1) * SECONDS_PER_DAY + k :
            e \in {TIER_BRONZE_END, TIER_SILVER_END, TIER_GOLD_END},
            k \in -1 .. FineTicks}
M_Bonuses == {0, MULTIPLIER_BRONZE, MULTIPLIER_SILVER + 25,
              MULTIPLIER_DIAMOND + 50}
M_Days ==
    {-1, 0} \cup {e + k : e \in {TIER_BRONZE_END, TIER_SILVER_END,
                                 TIER_GOLD_END}, k \in 0 .. 2}

\* instants of a rate change: early in the bronze tier and at its end
M_ChangeTimes == {FineTicks, (TIER_BRONZE_END + 1) * SECONDS_PER_DAY}

M_Run(op, out) ==
    /\ prog = "reward_math"
    /\ calc.op = "input"
    /\ calc' = [calc EXCEPT !.op = op, !.out = out]
    /\ UNCHANGED <<now, steps, prog, kr8tiv, staking, emerg, last, ledger>>

M_CalculateRewards ==
    M_Run("calculate_rewards", calculate_rewards(calc.input))

M_GetMultiplierForDays ==
    M_Run("get_multiplier_for_days",
          [RewardError("Ok") EXCEPT
              !.effective_multiplier = get_multiplier_for_days(calc.days)])

M_CalculateWithRateChange ==
    M_Run("calculate_with_rate_change",
          calculate_with_rate_change(calc.input, calc.rate_change_time,
                                     calc.new_rate))

NextM ==
    \/ M_CalculateRewards
    \/ M_GetMultiplierForDays
    \/ M_CalculateWithRateChange

\* a run starts from a RewardCalculationInput, or from a day count, or from
\* an input together with the instant and the rate of a rate change
M_RewardInput(amount, start, claim, current, rate, bonus) ==
    [user_stake_amount |-> amount, stake_start_time |-> start,
     last_claim_time |-> claim, current_time |-> current,
     global_reward_rate |-> rate, early_holder_bonus |-> bonus]

InitM ==
    /\ now = Genesis
    /\ steps = 0
    /\ prog = "reward_math"
    /\ kr8tiv = K_initialize_pool(InitialRate, Genesis)
    /\ staking = W_initialize(InitialRate, CooldownDays, Genesis)
    /\ emerg = E_Quiet
    /\ last = NoOutcome
    /\ ledger = NoLedger
    /\ \/ \E amount \in Amounts, start \in M_Starts, claim \in M_Times,
             current \in M_Times, rate \in Rates, bonus \in M_Bonuses :
               calc = [M_Idle EXCEPT !.input =
                          M_RewardInput(amount, start, claim, current, rate,
                                        bonus)]
       \/ \E days \in M_Days : calc = [M_Idle EXCEPT !.days = days]
       \/ \E amount \in Amounts \ {0}, current \in M_Times,
             rate \in Rates, rate_change_time \in M_ChangeTimes,
             new_rate \in Rates :
               calc = [M_Idle EXCEPT
                          !.input = M_RewardInput(amount, 0, 0, current, rate,
                                                  MULTIPLIER_BRONZE),
                          !.rate_change_time = rate_change_time,
                          !.new_rate = new_rate]

SpecM == InitM /\ [][NextM]_vars

(***************************************************************************)
(* Properties                                                              *)
(***************************************************************************)

\* C1: in kr8tiv-staking, after any sequence of committed instructions,
\* pool.total_staked equals the sum of amount over all UserStake records.
C1_TotalStakedIsSumOfAmounts ==
    kr8tiv.pool.total_staked = Sum(kr8tiv.users, "amount")

\* a partial unstake has completed and stake remains in the pool
C1_Witness ==
    /\ prog = "kr8tiv"
    /\ last.op = "complete_unstake"
    /\ kr8tiv.pool.total_staked > 0

\* C2: in staking, after any sequence of committed instructions,
\* pool.total_weight equals the sum of weight over all UserStake records,
\* also after claim_rewards raised a user's weight on tier progression.
C2_TotalWeightIsSumOfWeights ==
    staking.pool.total_weight = Sum(staking.users, "weight")

\* a claim has just raised the claimant's weight above its base weight
C2_Witness ==
    /\ prog = "staking"
    /\ last.op = "claim_rewards"
    /\ staking.users[last.signer].weight
           > W_Weight(staking.users[last.signer].amount,
                      W_calculate_multiplier(0))

K_UserCalls ==
    ({"stake", "initiate_unstake"} \X (Amounts \ {0}))
    \cup ({"complete_unstake", "claim_rewards"} \X {0})
W_UserCalls ==
    ({"stake"} \X (Amounts \ {0}))
    \cup ({"request_unstake", "unstake", "claim_rewards"} \X {0})

K_Call(st, u, call, t) ==
    CASE call[1] = "stake" -> K_stake(st, u, call[2], t)
      [] call[1] = "initiate_unstake" -> K_initiate_unstake(st, u, call[2], t)
      [] call[1] = "complete_unstake" -> K_complete_unstake(st, u, t)
      [] call[1] = "claim_rewards" -> K_claim_rewards(st, u, t)
W_Call(st, u, call, t) ==
    CASE call[1] = "stake" -> W_stake(st, u, call[2], t)
      [] call[1] = "request_unstake" -> W_request_unstake(st, u, t)
      [] call[1] = "unstake" -> W_unstake(st, u, t)
      [] call[1] = "claim_rewards" -> W_claim_rewards(st, u, t)

\* two instructions one after the other at the same timestamp
K_Serial(st, u1, call1, u2, call2, t) ==
    LET first == K_Call(st, u1, call1, t)
        second == K_Call(Persist(st, first), u2, call2, t)
    IN  [ok |-> first.err = "Ok" /\ second.err = "Ok",
         st |-> second.st, paid1 |-> first.payout, paid2 |-> second.payout]
W_Serial(st, u1, call1, u2, call2, t) ==
    LET first == W_Call(st, u1, call1, t)
        second == W_Call(Persist(st, first), u2, call2, t)
    IN  [ok |-> first.err = "Ok" /\ second.err = "Ok",
         st |-> second.st, paid1 |-> first.payout, paid2 |-> second.payout]

\* C4: for two distinct users A and B and two user instructions that both
\* succeed at the same timestamp, A's then B's leaves the same pool record,
\* user records and payouts as B's then A's (in both programs).
C4_DistinctUsersCommute ==
    \A pair \in {p \in SUBSET Users : Cardinality(p) = 2} :
        LET A == CHOOSE u \in pair : TRUE
            B == CHOOSE u \in pair : u # A
        IN  /\ prog = "kr8tiv" =>
                \A callA \in K_UserCalls, callB \in K_UserCalls :
                    LET ab == K_Serial(kr8tiv, A, callA, B, callB, now)
                        ba == K_Serial(kr8tiv, B, callB, A, callA, now)
                    IN  (ab.ok /\ ba.ok) =>
                            /\ ab.st = ba.st
                            /\ ab.paid1 = ba.paid2
                            /\ ab.paid2 = ba.paid1
            /\ prog = "staking" =>
                \A callA \in W_UserCalls, callB \in W_UserCalls :
                    LET ab == W_Serial(staking, A, callA, B, callB, now)
                        ba == W_Serial(staking, B, callB, A, callA, now)
                    IN  (ab.ok /\ ba.ok) =>
                            /\ ab.st = ba.st
                            /\ ab.paid1 = ba.paid2
                            /\ ab.paid2 = ba.paid1

\* two users with accrued rewards can both claim at this timestamp, and the
\* pool's clock is behind it, so whichever goes first settles the pool
C4_Witness ==
    /\ kr8tiv.pool.last_update_time < now
    /\ \E A \in Users, B \in Users :
           /\ A # B
           /\ LET ab == K_Serial(kr8tiv, A, <<"claim_rewards", 0>>,
                                 B, <<"claim_rewards", 0>>, now)
              IN  ab.ok /\ ab.paid1 > 0 /\ ab.paid2 > 0

\* C5: the pool's reward accumulator (reward_per_token_stored in
\* kr8tiv-staking, reward_per_weight in staking) never decreases from one
\* step to the next; the clock never goes back.
C5_AccumulatorNeverDecreases ==
    [][/\ now' >= now
       /\ kr8tiv'.pool.reward_per_token_stored
              >= kr8tiv.pool.reward_per_token_stored
       /\ staking'.pool.reward_per_weight
              >= staking.pool.reward_per_weight]_vars

\* the accumulator has grown and the next settlement would carry it past
\* the machine word: the instruction is rejected instead of wrapping
C5_Witness ==
    /\ prog = "kr8tiv"
    /\ kr8tiv.pool.reward_per_token_stored > 0
    /\ kr8tiv.pool.total_staked > 0
    /\ K_update_rewards(kr8tiv.pool, now).err = "MathOverflow"

\* C6 as stated: with a cooldown pending, complete_unstake strictly before
\* cooldown_end fails with CooldownNotComplete; at or after cooldown_end it
\* succeeds, clears cooldown_amount and cooldown_end, and a second call
\* fails with NoCooldownActive.
C6_CooldownGateAlwaysSucceedsAfter ==
    \A u \in Users :
        kr8tiv.users[u].cooldown_amount > 0 =>
            LET r == K_complete_unstake(kr8tiv, u, now)
            IN  IF now < kr8tiv.users[u].cooldown_end
                THEN r.err = "CooldownNotComplete"
                ELSE /\ r.err = "Ok"
                     /\ r.st.users[u].cooldown_amount = 0
                     /\ r.st.users[u].cooldown_end = 0
                     /\ K_complete_unstake(r.st, u, now).err
                            = "NoCooldownActive"

\* C6: with a cooldown pending, complete_unstake strictly before
\* cooldown_end fails with CooldownNotComplete; at or after cooldown_end the
\* cooldown no longer rejects it, and when it succeeds it clears
\* cooldown_amount and cooldown_end so that a second call fails with
\* NoCooldownActive.
C6_CooldownGate ==
    \A u \in Users :
        kr8tiv.users[u].cooldown_amount > 0 =>
            LET r == K_complete_unstake(kr8tiv, u, now)
            IN  IF now < kr8tiv.users[u].cooldown_end
                THEN r.err = "CooldownNotComplete"
                ELSE /\ r.err \notin {"CooldownNotComplete", "NoCooldownActive"}
                     /\ r.err = "Ok" =>
                            /\ r.st.users[u].cooldown_amount = 0
                            /\ r.st.users[u].cooldown_end = 0
                            /\ K_complete_unstake(r.st, u, now).err
                                   = "NoCooldownActive"

\* a cooldown ends at this very instant and the completion goes through
C6_Witness ==
    \E u \in Users :
        /\ kr8tiv.users[u].cooldown_amount > 0
        /\ now = kr8tiv.users[u].cooldown_end
        /\ K_complete_unstake(kr8tiv, u, now).err = "Ok"

\* a proposal has been made on the PendingEmergencyAction account
Proposed == emerg.pending.proposer # "none"

\* the pending action is for `action` and has reached its threshold
ApprovedFor(action) ==
    /\ Proposed
    /\ emerg.pending.action = action
    /\ is_approved(emerg.pending)

\* C7: no critical action (unpause, admin_emergency_withdraw,
\* initiate_gradual_shutdown) takes effect unless a pending action for it
\* has collected required_approvals approvals: before the threshold the
\* attempt fails with InsufficientApprovals, at the threshold the primary
\* admin's attempt succeeds.
C7_CriticalActionsNeedApprovals ==
    \A signer \in E_Signers :
        LET resume == unpause(emerg, signer)
            withdraw == admin_emergency_withdraw(emerg, signer)
            shutdown == initiate_gradual_shutdown(emerg, signer, now)
            primary == can_critical(emerg.admin, signer)
        IN  /\ ~ApprovedFor("Resume") =>
                   /\ resume.err # "Ok"
                   /\ primary => resume.err = "InsufficientApprovals"
            /\ ~ApprovedFor("AdminWithdraw") =>
                   /\ withdraw.err # "Ok"
                   /\ (primary /\ emerg.global_pool.emergency_mode)
                          => withdraw.err = "InsufficientApprovals"
            /\ ~ApprovedFor("GradualShutdown") =>
                   /\ shutdown.err # "Ok"
                   /\ primary => shutdown.err = "InsufficientApprovals"
            /\ (ApprovedFor("Resume") /\ primary) => resume.err = "Ok"
            /\ (ApprovedFor("GradualShutdown") /\ primary)
                   => shutdown.err = "Ok"
            /\ (ApprovedFor("AdminWithdraw") /\ primary
                    /\ emerg.global_pool.emergency_mode)
                   => withdraw.err = "Ok"

\* no identity appears twice in the approvals list
ApprovalsDistinct ==
    Cardinality(Range(emerg.pending.approvals)) = Len(emerg.pending.approvals)

\* C8 as stated: approvals holds no identity twice, and an approval by an
\* identity already in approvals fails with AlreadyApproved and leaves
\* approvals unchanged.
C8_DuplicateAlwaysAlreadyApproved ==
    /\ ApprovalsDistinct
    /\ \A signer \in E_Signers :
           has_approved(emerg.pending, signer) =>
               LET r == approve_emergency_action(emerg, signer, now)
               IN  /\ r.err = "AlreadyApproved"
                   /\ r.st.pending.approvals = emerg.pending.approvals

\* C8: approvals holds no identity twice; an approval by an identity already
\* in approvals (the auto-approved proposer included) fails and leaves
\* approvals unchanged, with AlreadyApproved while the action has not
\* expired and with ActionExpired from expires_at on.
C8_ApprovalsDistinct ==
    /\ ApprovalsDistinct
    /\ \A signer \in E_Signers :
           has_approved(emerg.pending, signer) =>
               LET r == approve_emergency_action(emerg, signer, now)
               IN  /\ r.err = IF now < emerg.pending.expires_at
                              THEN "AlreadyApproved" ELSE "ActionExpired"
                   /\ r.st.pending.approvals = emerg.pending.approvals

\* an admin other than the proposer has approved and tries again in time
C8_Witness ==
    \E signer \in E_Signers :
        /\ signer # emerg.pending.proposer
        /\ has_approved(emerg.pending, signer)
        /\ approve_emergency_action(emerg, signer, now).err = "AlreadyApproved"

\* C9 as stated: a pending action expires 48 hours after its proposal; an
\* approval at any time now >= expires_at fails with ActionExpired and leaves
\* approvals unchanged, and an eligible admin's first approval strictly
\* before expires_at succeeds.
C9_ExpiredAlwaysActionExpired ==
    Proposed =>
        /\ emerg.pending.expires_at
               = emerg.pending.proposed_at + 2 * SECONDS_PER_DAY
        /\ \A signer \in E_Signers :
               LET r == approve_emergency_action(emerg, signer, now)
               IN  IF now >= emerg.pending.expires_at
                   THEN /\ r.err = "ActionExpired"
                        /\ r.st.pending.approvals = emerg.pending.approvals
                   ELSE (is_admin(emerg.admin, signer)
                            /\ ~has_approved(emerg.pending, signer))
                        => r.err = "Ok"

\* C9: a pending action expires 48 hours after its proposal; an admin's
\* approval at any time now >= expires_at fails with ActionExpired (anyone
\* else's with Unauthorized) and leaves approvals unchanged, and an eligible
\* admin's first approval strictly before expires_at succeeds.
C9_ExpiryGate ==
    Proposed =>
        /\ emerg.pending.expires_at
               = emerg.pending.proposed_at + 2 * SECONDS_PER_DAY
        /\ \A signer \in E_Signers :
               LET r == approve_emergency_action(emerg, signer, now)
               IN  IF now >= emerg.pending.expires_at
                   THEN /\ r.err = IF is_admin(emerg.admin, signer)
                                   THEN "ActionExpired" ELSE "Unauthorized"
                        /\ r.st.pending.approvals = emerg.pending.approvals
                   ELSE (is_admin(emerg.admin, signer)
                            /\ ~has_approved(emerg.pending, signer))
                        => /\ r.err = "Ok"
                           /\ r.st.pending.approvals
                                  = Append(emerg.pending.approvals, signer)

\* the clock stands exactly at expires_at and an admin who has not approved
\* yet is turned away
C9_Witness ==
    /\ Proposed
    /\ now = emerg.pending.expires_at
    /\ \E signer \in E_Signers :
           /\ is_admin(emerg.admin, signer)
           /\ ~has_approved(emerg.pending, signer)
           /\ approve_emergency_action(emerg, signer, now).err
                  = "ActionExpired"

\* C10: emergency_unstake fails with NotInEmergencyMode whenever
\* emergency_mode is false, paused or not, and leaves the stake and the pool
\* totals unchanged; in emergency mode it fails with Unauthorized when the
\* signer is not the stake's owner.
C10_EmergencyUnstakeGuards ==
    \A holder \in Users, signer \in E_Signers :
        LET r == emergency_unstake(emerg, holder, signer)
        IN  /\ ~emerg.global_pool.emergency_mode =>
                   /\ r.err = "NotInEmergencyMode"
                   /\ r.st.stakes = emerg.stakes
                   /\ r.st.global_pool = emerg.global_pool
            /\ (emerg.global_pool.emergency_mode
                    /\ signer # emerg.stakes[holder].owner) =>
                   /\ r.err = "Unauthorized"
                   /\ r.st.stakes = emerg.stakes
                   /\ r.st.global_pool = emerg.global_pool

\* the pool is paused but not in emergency mode and a holder with a stake
\* asks for it back
C10_Witness ==
    /\ emerg.global_pool.is_paused
    /\ ~emerg.global_pool.emergency_mode
    /\ \E holder \in Users :
           /\ emerg.stakes[holder].staked_amount > 0
           /\ emergency_unstake(emerg, holder, holder).err
                  = "NotInEmergencyMode"

\* C11: inside emergency mode, emergency_unstake by a stake's owner zeroes
\* staked_amount and pending_rewards, returns the previous staked_amount and
\* reduces pool.total_staked by exactly that amount, in every reachable
\* state (also after other exits or an admin withdrawal).
C11_EmergencyUnstakeExact ==
    \A holder \in Users :
        emerg.global_pool.emergency_mode =>
            LET before == emerg.stakes[holder].staked_amount
                r == emergency_unstake(emerg, holder, holder)
            IN  /\ r.err = "Ok"
                /\ r.st.stakes[holder].staked_amount = 0
                /\ r.st.stakes[holder].pending_rewards = 0
                /\ r.payout = before
                /\ r.st.global_pool.total_staked
                       = emerg.global_pool.total_staked - before

\* C12: for stake_start_time <= last_claim_time <= current_time the bronze,
\* silver, gold and diamond durations of the tier segmentation are each
\* non-negative and sum to current_time - last_claim_time; calculate_rewards
\* reports these durations for a non-zero stake.
C12_TierDurationsPartition ==
    LET i == calc.input
        d == calculate_tier_durations(i.stake_start_time, i.last_claim_time,
                                      i.current_time)
    IN  (i.stake_start_time <= i.last_claim_time
            /\ i.last_claim_time <= i.current_time) =>
            /\ d.bronze_seconds >= 0 /\ d.silver_seconds >= 0
            /\ d.gold_seconds >= 0 /\ d.diamond_seconds >= 0
            /\ d.bronze_seconds + d.silver_seconds + d.gold_seconds
                   + d.diamond_seconds = i.current_time - i.last_claim_time
            /\ (calc.op = "calculate_rewards" /\ calc.out.err = "Ok"
                    /\ i.user_stake_amount > 0) =>
                   LET t == calc.out.time_in_each_tier
                   IN  t.bronze_seconds + t.silver_seconds + t.gold_seconds
                           + t.diamond_seconds
                           = i.current_time - i.last_claim_time

C12_Witness ==
    /\ calc.op = "calculate_rewards"
    /\ calc.out.err = "Ok"
    /\ calc.out.time_in_each_tier.bronze_seconds > 0
    /\ calc.out.time_in_each_tier.silver_seconds > 0
    /\ calc.out.time_in_each_tier.gold_seconds > 0
    /\ calc.out.time_in_each_tier.diamond_seconds > 0

\* C13: for a stake started at 0 and last claimed at 0, a claim at exactly 30
\* days yields bronze, silver and gold durations that are all > 0 and sum to
\* 30 days.
C13_ThirtyDaysReachesGold ==
    LET i == calc.input
        t == calc.out.time_in_each_tier
    IN  (/\ calc.op = "calculate_rewards"
         /\ calc.out.err = "Ok"
         /\ i.user_stake_amount > 0
         /\ i.stake_start_time = 0
         /\ i.last_claim_time = 0
         /\ i.current_time = (TIER_SILVER_END + 1) * SECONDS_PER_DAY) =>
            /\ t.bronze_seconds > 0
            /\ t.silver_seconds > 0
            /\ t.gold_seconds > 0
            /\ t.bronze_seconds + t.silver_seconds + t.gold_seconds
                   = (TIER_SILVER_END + 1) * SECONDS_PER_DAY

\* C14: for a valid input with a non-zero stake, calculate_rewards returns a
\* total equal to the sum over the four tiers of
\* floor(amount * rate * tier_seconds * max(tier_multiplier, bonus)
\*       / (PRECISION * 100));
\* an interval wholly in the bronze tier with bonus <= 100 has bronze_seconds
\* equal to the elapsed time, no other tier seconds, and a total equal to
\* amount * rate * seconds * 100 / (PRECISION * 100).
C14_TotalIsSumOfTierFloors ==
    LET i == calc.input
        t == calc.out.time_in_each_tier
        Floor(seconds, tier_multiplier) ==
            (i.user_stake_amount * i.global_reward_rate * seconds
                * Max(tier_multiplier, i.early_holder_bonus))
                \div (PRECISION * 100)
        bronze_end ==
            i.stake_start_time + (TIER_BRONZE_END + 1) * SECONDS_PER_DAY
    IN  (/\ calc.op = "calculate_rewards"
         /\ calc.out.err = "Ok"
         /\ i.user_stake_amount > 0) =>
            /\ calc.out.total_pending_rewards
                   = Floor(t.bronze_seconds, MULTIPLIER_BRONZE)
                     + Floor(t.silver_seconds, MULTIPLIER_SILVER)
                     + Floor(t.gold_seconds, MULTIPLIER_GOLD)
                     + Floor(t.diamond_seconds, MULTIPLIER_DIAMOND)
            /\ (i.current_time <= bronze_end
                    /\ i.early_holder_bonus <= MULTIPLIER_BRONZE) =>
                   /\ t.bronze_seconds = i.current_time - i.last_claim_time
                   /\ t.silver_seconds = 0
                   /\ t.gold_seconds = 0
                   /\ t.diamond_seconds = 0
                   /\ calc.out.total_pending_rewards
                          = (i.user_stake_amount * i.global_reward_rate
                                * (i.current_time - i.last_claim_time)
                                * MULTIPLIER_BRONZE)
                            \div (PRECISION * 100)

\* C15: the tier multiplier is monotone in the day count: for day counts
\* d1 <= d2 taken by get_multiplier_for_days, multiplier(d1) <= multiplier(d2),
\* with 100 for days 0-6, 150 for days 7-29, 200 for days 30-89 and 250 for
\* days 90 and above.
C15_MultiplierMonotone ==
    calc.op = "get_multiplier_for_days" =>
        LET m == calc.out.effective_multiplier
        IN  /\ \A d1 \in M_Days :
                  d1 <= calc.days => get_multiplier_for_days(d1) <= m
            /\ calc.days \in 0 .. 6 => m = 100
            /\ calc.days \in 7 .. 29 => m = 150
            /\ calc.days \in 30 .. 89 => m = 200
            /\ calc.days >= 90 => m = 250

\* C16: two calculate_rewards inputs that differ only in early_holder_bonus,
\* b1 < b2, and that both succeed: the total computed with b2 is at least the
\* total computed with b1.
C16_BonusMonotone ==
    (calc.op = "calculate_rewards" /\ calc.out.err = "Ok") =>
        \A b1 \in M_Bonuses :
            LET lower == calculate_rewards(
                             [calc.input EXCEPT !.early_holder_bonus = b1])
            IN  (b1 < calc.input.early_holder_bonus /\ lower.err = "Ok") =>
                    lower.total_pending_rewards
                        <= calc.out.total_pending_rewards

C16_Witness ==
    /\ calc.op = "calculate_rewards"
    /\ calc.out.err = "Ok"
    /\ \E b1 \in M_Bonuses :
          LET lower == calculate_rewards(
                           [calc.input EXCEPT !.early_holder_bonus = b1])
          IN  /\ b1 < calc.input.early_holder_bonus
              /\ lower.err = "Ok"
              /\ lower.total_pending_rewards
                     < calc.out.total_pending_rewards

\* C17: the pending-reward computation never returns a negative or wrapped
\* value: with the user's stored reward debt equal to the value implied by the
\* pool's current accumulator it returns 0, and with any stored debt at or
\* above that value it returns 0 as well.
C17_PendingNeverUnderflows ==
    \A u \in Users :
        /\ prog = "kr8tiv" =>
              LET us == kr8tiv.users[u]
                  implied == kr8tiv.pool.reward_per_token_stored
              IN  /\ K_calculate_pending_rewards(kr8tiv.pool, us)
                         \in 0 .. U64_MAX
                  /\ \A debt \in {implied, implied + 1, U64_MAX} :
                        debt >= implied =>
                            K_calculate_pending_rewards(
                                kr8tiv.pool,
                                [us EXCEPT !.reward_per_token_paid = debt]) = 0
        /\ prog = "staking" =>
              LET us == staking.users[u]
                  implied == W_Accumulated(us.weight,
                                           staking.pool.reward_per_weight)
              IN  implied # None =>
                  /\ W_calculate_pending(staking.pool, us) \in 0 .. U64_MAX
                  /\ \A debt \in {implied, implied + 1, U64_MAX} :
                        debt >= implied =>
                            W_calculate_pending(
                                staking.pool,
                                [us EXCEPT !.reward_debt = debt]) = 0

\* a user with a stake whose debt was just brought up to a grown accumulator,
\* in either program
C17_Witness ==
    /\ last.op = "claim_rewards"
    /\ last.payout > 0
    /\ \/ /\ prog = "kr8tiv"
          /\ kr8tiv.users[last.signer].amount > 0
          /\ kr8tiv.users[last.signer].reward_per_token_paid
                 = kr8tiv.pool.reward_per_token_stored
          /\ kr8tiv.pool.reward_per_token_stored > 0
       \/ /\ prog = "staking"
          /\ staking.users[last.signer].weight > 0
          /\ staking.users[last.signer].reward_debt
                 = W_Accumulated(staking.users[last.signer].weight,
                                 staking.pool.reward_per_weight)
          /\ staking.users[last.signer].reward_debt > 0

\* C18: in stake, complete_unstake and claim_rewards every write to the
\* user's amount, pending_rewards and reward debt and to the pool's total
\* happens before the external transfer is invoked: the records a successful
\* call leaves are the records it held when it invoked the transfer.  (The
\* records held at the transfer are those the handler leaves when the same
\* call meets an empty source account.)
C18_WritesPrecedeTransfer ==
    LET Balances(st, u) ==
            <<st.users[u].amount, st.users[u].pending_rewards,
              st.users[u].reward_per_token_paid, st.pool.total_staked>>
    IN  prog = "kr8tiv" =>
        \A u \in Users :
            /\ \A amount \in Amounts :
                  LET r == K_stake(kr8tiv, u, amount, now)
                      atcall == K_stake([kr8tiv EXCEPT !.wallet[u] = 0],
                                        u, amount, now)
                  IN  r.err = "Ok" =>
                          /\ atcall.err = "TransferFailed"
                          /\ Balances(atcall.st, u) = Balances(r.st, u)
            /\ LET r == K_complete_unstake(kr8tiv, u, now)
                   atcall == K_complete_unstake(
                                 [kr8tiv EXCEPT !.staking_vault = 0], u, now)
               IN  r.err = "Ok" =>
                       /\ atcall.err = "TransferFailed"
                       /\ Balances(atcall.st, u) = Balances(r.st, u)
            /\ LET r == K_claim_rewards(kr8tiv, u, now)
                   atcall == K_claim_rewards(
                                 [kr8tiv EXCEPT !.reward_vault = 0], u, now)
               IN  (r.err = "Ok" /\ r.payout > 0) =>
                       /\ atcall.err = "InsufficientRewardBalance"
                       /\ Balances(atcall.st, u) = Balances(r.st, u)

\* C19: no computation of the accounting path silently wraps, truncates or
\* saturates: whenever the accumulator increment of a settlement,
\* reward_rate * time_elapsed * scale / total_staked, does not fit a u64, the
\* settlement aborts with MathOverflow instead of storing a reduced value.
C19_SettlementOverflowAborts ==
    (prog = "kr8tiv" /\ kr8tiv.pool.total_staked > 0) =>
        LET pool == kr8tiv.pool
            time_elapsed == SatSub(now, pool.last_update_time)
            reward_per_token_increase ==
                (pool.reward_rate * time_elapsed * RPT_SCALE)
                    \div pool.total_staked
        IN  reward_per_token_increase > U64_MAX =>
                K_update_rewards(pool, now).err = "MathOverflow"

\* C20: a reward-rate change is never retroactive: a committed
\* update_reward_rate at time t leaves the accumulator grown over
\* [last_update_time, t] by the old rate alone, the pool's settlement time at
\* t and the new rate stored, so that growth up to any later time is computed
\* from t with the new rate alone.
C20_RateChangeNotRetroactive ==
    [][(last'.op = "update_reward_rate" /\ steps' = steps + 1) =>
        /\ prog = "kr8tiv" =>
              LET old == kr8tiv.pool
                  new == kr8tiv'.pool
                  elapsed == now - old.last_update_time
              IN  /\ new.reward_rate = last'.arg
                  /\ new.last_update_time = now
                  /\ new.total_staked = old.total_staked
                  /\ new.reward_per_token_stored
                         = IF old.total_staked > 0
                           THEN old.reward_per_token_stored
                                + AsU64((old.reward_rate * elapsed * RPT_SCALE)
                                        \div old.total_staked)
                           ELSE old.reward_per_token_stored
                  /\ \A later \in ClockTimes :
                        (later > now /\ new.total_staked > 0
                            /\ K_update_rewards(new, later).err = "Ok") =>
                            K_update_rewards(new, later)
                                    .pool.reward_per_token_stored
                                = new.reward_per_token_stored
                                  + AsU64((last'.arg * (later - now)
                                              * RPT_SCALE)
                                          \div new.total_staked)
        /\ prog = "staking" =>
              LET old == staking.pool
                  new == staking'.pool
                  elapsed == now - old.last_update
              IN  /\ new.reward_rate = last'.arg
                  /\ new.last_update = now
                  /\ new.total_weight = old.total_weight
                  /\ new.reward_per_weight
                         = IF old.total_weight > 0
                           THEN old.reward_per_weight
                                + (elapsed * old.reward_rate * RPW_SCALE)
                                  \div old.total_weight
                           ELSE old.reward_per_weight
                  /\ \A later \in ClockTimes :
                        (later > now /\ new.total_weight > 0
                            /\ W_update_pool_rewards(new, later).err = "Ok") =>
                            W_update_pool_rewards(new, later)
                                    .pool.reward_per_weight
                                = new.reward_per_weight
                                  + ((later - now) * last'.arg * RPW_SCALE)
                                    \div new.total_weight
      ]_vars

\* a rate change that settled a grown accumulator: stake, time passes, then
\* update_reward_rate to a rate other than the initial one
C20_Witness ==
    /\ last.op = "update_reward_rate"
    /\ steps = 3
    /\ last.arg # InitialRate
    /\ \/ /\ prog = "kr8tiv"
          /\ kr8tiv.pool.total_staked > 0
          /\ kr8tiv.pool.reward_per_token_stored > 0
          /\ kr8tiv.pool.reward_rate = last.arg
       \/ /\ prog = "staking"
          /\ staking.pool.total_weight > 0
          /\ staking.pool.reward_per_weight > 0
          /\ staking.pool.reward_rate = last.arg

\* C21: in every reachable state of kr8tiv-staking a user's cooldown_amount
\* is at most the user's amount, also when the user stakes more while a
\* cooldown is pending and after complete_unstake.
C21_CooldownWithinAmount ==
    prog = "kr8tiv" =>
        \A u \in Users :
            kr8tiv.users[u].cooldown_amount <= kr8tiv.users[u].amount

\* a top-up while a cooldown is pending
C21_Witness ==
    /\ prog = "kr8tiv"
    /\ last.op = "stake"
    /\ kr8tiv.users[last.signer].cooldown_amount > 0
    /\ kr8tiv.users[last.signer].amount
           > kr8tiv.users[last.signer].cooldown_amount

\* C22: a user's stored reward debt is never ahead of the pool accumulator:
\* reward_per_token_paid <= reward_per_token_stored in kr8tiv-staking, and
\* reward_debt <= floor(weight * reward_per_weight / scale) in staking.
C22_DebtNotAhead ==
    \A u \in Users :
        /\ prog = "kr8tiv" =>
              kr8tiv.users[u].reward_per_token_paid
                  <= kr8tiv.pool.reward_per_token_stored
        /\ prog = "staking" =>
              staking.users[u].reward_debt
                  <= (staking.users[u].weight * staking.pool.reward_per_weight)
                         \div RPW_SCALE

\* a debt recorded at a grown accumulator that the accumulator has since passed
C22_Witness ==
    \E u \in Users :
        \/ /\ prog = "kr8tiv"
           /\ kr8tiv.users[u].reward_per_token_paid > 0
           /\ kr8tiv.users[u].reward_per_token_paid
                  < kr8tiv.pool.reward_per_token_stored
        \/ /\ prog = "staking"
           /\ staking.users[u].reward_debt > 0
           /\ staking.users[u].reward_debt
                  < (staking.users[u].weight * staking.pool.reward_per_weight)
                        \div RPW_SCALE

\* C23 as stated: a user's pending_rewards never decreases across an
\* operation, except that claim_rewards sets it to 0; stake, the unstake
\* request and the unstake completion only add to it.
C23_OnlyClaimLowersPending ==
    [][\A u \in Users :
          (kr8tiv'.users[u].pending_rewards < kr8tiv.users[u].pending_rewards
              \/ staking'.users[u].pending_rewards
                     < staking.users[u].pending_rewards) =>
              /\ steps' = steps + 1
              /\ last'.op = "claim_rewards"
              /\ last'.signer = u
              /\ kr8tiv'.users[u].pending_rewards = 0
              /\ staking'.users[u].pending_rewards = 0]_vars

\* C23: a user's pending_rewards never decreases across an operation, except
\* that it is set to 0 when it is paid out: by claim_rewards in both programs
\* and by unstake in staking, which pays the settled rewards together with
\* the principal.
C23_OnlyPayoutLowersPending ==
    [][\A u \in Users :
          (kr8tiv'.users[u].pending_rewards < kr8tiv.users[u].pending_rewards
              \/ staking'.users[u].pending_rewards
                     < staking.users[u].pending_rewards) =>
              /\ steps' = steps + 1
              /\ last'.signer = u
              /\ \/ last'.op = "claim_rewards"
                 \/ prog = "staking" /\ last'.op = "unstake"
              /\ kr8tiv'.users[u].pending_rewards = 0
              /\ staking'.users[u].pending_rewards = 0]_vars

\* a staking user with settled rewards whose unstake is about to pay them out
C23_Witness ==
    /\ prog = "staking"
    /\ \E u \in Users :
          /\ staking.users[u].pending_rewards > 0
          /\ W_unstake(staking, u, now).err = "Ok"
          /\ W_unstake(staking, u, now).st.users[u].pending_rewards = 0

\* C24: no stake succeeds with amount = 0 or while the system is paused for
\* new stakes: stake fails with InvalidAmount for amount = 0 and with a paused
\* error whenever the pool is paused or in emergency mode, and leaves the
\* user's amount and the pool's total_staked as they were.
C24_NoStakeWhilePaused ==
    \A u \in Users, amount \in Amounts :
        LET k == K_stake(kr8tiv, u, amount, now)
            kp == K_stake([kr8tiv EXCEPT !.pool.paused = TRUE], u, amount, now)
            w == W_stake(staking, u, amount, now)
            halted == emerg.global_pool.is_paused
                          \/ emerg.global_pool.emergency_mode
        IN  /\ amount = 0 => k.err = "InvalidAmount" /\ w.err = "InvalidAmount"
            /\ kp.err = IF amount = 0 THEN "InvalidAmount" ELSE "PoolPaused"
            /\ kp.st.users[u].amount = kr8tiv.users[u].amount
            /\ kp.st.pool.total_staked = kr8tiv.pool.total_staked
            /\ halted =>
                  /\ require_staking_allowed(emerg.global_pool)
                         \in {"StakingPaused", "InEmergencyMode"}
                  /\ w.err # "Ok"
                  /\ Persist(staking, w).users[u].amount
                         = staking.users[u].amount
                  /\ Persist(staking, w).pool.total_staked
                         = staking.pool.total_staked

C26_NotInModeAlwaysNotInEmergencyMode ==
    \A signer \in E_Signers :
        ~(emerg.global_pool.emergency_mode /\ emerg.global_pool.is_paused)
            => admin_emergency_withdraw(emerg, signer).err = "NotInEmergencyMode"

\* C26: admin_emergency_withdraw succeeds only when emergency_mode and
\* is_paused are both set; without them the primary admin gets
\* NotInEmergencyMode (any other caller Unauthorized) and the records stay
\* as they were.  On success it returns (total_staked, pending_distribution)
\* as they were and zeroes total_staked, total_stakers and
\* pending_distribution, so that a repeated call returns (0, 0).
C26_WithdrawGate ==
    \A signer \in E_Signers :
        LET pool == emerg.global_pool
            full == pool.emergency_mode /\ pool.is_paused
            first == admin_emergency_withdraw(emerg, signer)
            again == admin_emergency_withdraw(first.st, signer)
        IN  /\ first.err = "Ok" => full
            /\ ~full =>
                /\ first.st = emerg
                /\ first.err = IF signer = emerg.admin.primary_admin
                               THEN "NotInEmergencyMode" ELSE "Unauthorized"
            /\ (full /\ signer = emerg.admin.primary_admin) =>
                /\ first.err = "Ok"
                /\ first.payout = pool.total_staked
                /\ first.extra = emerg.fee_vault.pending_distribution
                /\ first.st.global_pool.total_staked = 0
                /\ first.st.global_pool.total_stakers = 0
                /\ first.st.fee_vault.pending_distribution = 0
                /\ first.st.global_pool.is_paused = pool.is_paused
                /\ first.st.global_pool.emergency_mode = pool.emergency_mode
                /\ first.st.stakes = emerg.stakes
                /\ again.err = "Ok" /\ again.payout = 0 /\ again.extra = 0
                /\ again.st = first.st

\* a committed withdrawal that returned a positive pair and left the totals
\* at zero, so that the next call returns (0, 0)
C26_Witness ==
    /\ last.op = "admin_emergency_withdraw"
    /\ last.payout > 0 /\ last.extra > 0
    /\ emerg.global_pool.emergency_mode /\ emerg.global_pool.is_paused
    /\ emerg.global_pool.total_staked = 0
    /\ emerg.global_pool.total_stakers = 0
    /\ emerg.fee_vault.pending_distribution = 0
    /\ admin_emergency_withdraw(emerg, last.signer).payout = 0

\* ---- C27: gradual shutdown

\* C27: right after initiate_gradual_shutdown at time t the shutdown record
\* has allow_new_stakes = FALSE, allow_unstakes = allow_claims = TRUE and
\* shutdown_at = t + 7 days and the pool is paused; and while a shutdown is
\* running and now < shutdown_at, admin_emergency_withdraw cannot succeed.
C27_WindDown ==
    /\ last.op = "initiate_gradual_shutdown" =>
        /\ emerg.shutdown.initiated_at = now
        /\ emerg.shutdown.shutdown_at = now + 7 * SECONDS_PER_DAY
        /\ ~emerg.shutdown.allow_new_stakes
        /\ emerg.shutdown.allow_unstakes
        /\ emerg.shutdown.allow_claims
        /\ emerg.global_pool.is_paused
        /\ require_staking_allowed(emerg.global_pool) # "Ok"
    /\ (emerg.shutdown # E_NoShutdown /\ now < emerg.shutdown.shutdown_at) =>
        \A signer \in E_Signers :
            admin_emergency_withdraw(emerg, signer).err # "Ok"

\* ---- C28: settlement is idempotent

\* C28: settling a pool a second time with the same now leaves the pool, in
\* particular the accumulator and last_update_time, exactly as the first
\* settlement left it (update_rewards and update_pool_rewards).
C28_SettleIdempotent ==
    \A t \in ClockTimes :
        t >= now =>
            LET k1 == K_update_rewards(kr8tiv.pool, t)
                k2 == K_update_rewards(k1.pool, t)
                w1 == W_update_pool_rewards(staking.pool, t)
                w2 == W_update_pool_rewards(w1.pool, t)
            IN  /\ k2.err = k1.err
                /\ k2.pool = k1.pool
                /\ k1.err = "Ok" => k1.pool.last_update_time = t
                /\ w2.err = w1.err
                /\ w2.pool = w1.pool
                /\ w1.err = "Ok" => w1.pool.last_update = t

\* a pool with stake and an unsettled interval: the first settlement at now
\* raises the accumulator, the second changes nothing
C28_Witness ==
    /\ kr8tiv.pool.total_staked > 0
    /\ kr8tiv.pool.last_update_time < now
    /\ LET k1 == K_update_rewards(kr8tiv.pool, now)
       IN  /\ k1.err = "Ok"
           /\ k1.pool.reward_per_token_stored
                  > kr8tiv.pool.reward_per_token_stored
           /\ K_update_rewards(k1.pool, now).pool = k1.pool

\* ---- C29: no reward growth without stake

\* C29: while the pool's total stake (total weight) is 0, a settlement at any
\* time leaves the accumulator unchanged and only sets last_update_time; and
\* a stake committed into such a pool leaves the accumulator where it was,
\* moves last_update_time to now and credits the staker nothing, so the
\* interval in which nothing was staked earns nobody a reward.
C29_EmptyPoolEarnsNothing ==
    [][ /\ \A t \in ClockTimes :
            /\ (t >= now /\ kr8tiv.pool.total_staked = 0) =>
                   K_update_rewards(kr8tiv.pool, t) =
                       [err |-> "Ok",
                        pool |-> [kr8tiv.pool EXCEPT !.last_update_time = t]]
            /\ (t >= now /\ staking.pool.total_weight = 0) =>
                   W_update_pool_rewards(staking.pool, t) =
                       [err |-> "Ok",
                        pool |-> [staking.pool EXCEPT !.last_update = t]]
        /\ (prog = "kr8tiv" /\ kr8tiv.pool.total_staked = 0
                /\ steps' = steps + 1 /\ last'.op = "stake") =>
            LET u == last'.signer
            IN  /\ kr8tiv'.pool.reward_per_token_stored
                       = kr8tiv.pool.reward_per_token_stored
                /\ kr8tiv'.pool.last_update_time = now
                /\ kr8tiv'.users[u].pending_rewards
                       = kr8tiv.users[u].pending_rewards
                /\ K_calculate_pending_rewards(kr8tiv'.pool,
                                               kr8tiv'.users[u]) = 0
        /\ (prog = "staking" /\ staking.pool.total_weight = 0
                /\ steps' = steps + 1 /\ last'.op = "stake") =>
            LET u == last'.signer
            IN  /\ staking'.pool.reward_per_weight
                       = staking.pool.reward_per_weight
                /\ staking'.pool.last_update = now
                /\ staking'.users[u].pending_rewards
                       = staking.users[u].pending_rewards
                /\ W_calculate_pending(staking'.pool, staking'.users[u]) = 0
      ]_vars

\* a first stake made after the pool stood empty for a while at a positive
\* reward rate: the accumulator is still 0 and the clock is at the stake
C29_Witness ==
    /\ prog = "kr8tiv"
    /\ last.op = "stake"
    /\ now > Genesis
    /\ kr8tiv.pool.reward_rate > 0
    /\ kr8tiv.pool.total_staked = last.arg
    /\ kr8tiv.users[last.signer].amount = last.arg
    /\ kr8tiv.pool.reward_per_token_stored = 0
    /\ kr8tiv.pool.last_update_time = now

\* ---- C30: initiate_unstake

\* C30: initiate_unstake(amount) succeeds only if 0 < amount <= user.amount
\* and no cooldown is active; otherwise it fails with InvalidAmount,
\* InsufficientStake or CooldownActive (tested in this order) and changes
\* nothing.  On success the user's rewards are settled to the current
\* accumulator, cooldown_amount = amount, cooldown_end = now +
\* COOLDOWN_DURATION (3 days), and user.amount, pool.total_staked, the vaults
\* and the other users are as before.
C30_InitiateUnstake ==
    \A u \in Users, amount \in 0 .. InitialWallet + 1 :
        LET us == kr8tiv.users[u]
            r == K_initiate_unstake(kr8tiv, u, amount, now)
            after == r.st.users[u]
            grown == SatSub(r.st.pool.reward_per_token_stored,
                            us.reward_per_token_paid)
        IN  /\ r.err = "Ok" =>
                    (0 < amount /\ amount <= us.amount /\ us.cooldown_end = 0)
            /\ amount = 0 => r.err = "InvalidAmount"
            /\ (amount > 0 /\ amount > us.amount) =>
                    r.err = "InsufficientStake"
            /\ (0 < amount /\ amount <= us.amount /\ us.cooldown_end # 0) =>
                    r.err = "CooldownActive"
            /\ r.err \in {"InvalidAmount", "InsufficientStake",
                          "CooldownActive"} => r.st = kr8tiv
            /\ r.err = "Ok" =>
                /\ after.cooldown_amount = amount
                /\ after.cooldown_end = now + 3 * SECONDS_PER_DAY
                /\ after.amount = us.amount
                /\ after.stake_start_time = us.stake_start_time
                /\ r.st.pool.total_staked = kr8tiv.pool.total_staked
                /\ r.st.pool.last_update_time = now
                /\ after.reward_per_token_paid
                       = r.st.pool.reward_per_token_stored
                /\ after.pending_rewards
                       = us.pending_rewards
                             + (us.amount * grown) \div RPT_SCALE
                /\ \A v \in Users \ {u} : r.st.users[v] = kr8tiv.users[v]
                /\ r.st.staking_vault = kr8tiv.staking_vault
                /\ r.st.wallet = kr8tiv.wallet
                /\ r.st.reward_vault = kr8tiv.reward_vault

\* a committed initiate_unstake for part of the stake that settled a
\* positive reward; a second initiate_unstake is refused while it runs
C30_Witness ==
    /\ prog = "kr8tiv"
    /\ last.op = "initiate_unstake"
    /\ LET us == kr8tiv.users[last.signer]
       IN  /\ us.cooldown_amount = last.arg
           /\ us.cooldown_end = now + COOLDOWN_DURATION
           /\ us.amount > us.cooldown_amount
           /\ us.pending_rewards > 0
           /\ us.reward_per_token_paid = kr8tiv.pool.reward_per_token_stored
           /\ K_initiate_unstake(kr8tiv, last.signer, 1, now).err
                  = "CooldownActive"

\* ---- C31: stake_start_time

\* C31: a user's stake_start_time changes only in two ways: a committed stake
\* onto a record whose amount is 0 sets it to now (a top-up leaves it), and a
\* committed complete_unstake that brings amount to 0 resets it to 0 (a
\* partial one leaves it).  initiate_unstake, claim_rewards, the authority's
\* instructions and other users' instructions leave it unchanged.
C31_StakeStartTime ==
    [][ prog = "kr8tiv" =>
        \A u \in Users :
            LET before == kr8tiv.users[u]
                after == kr8tiv'.users[u]
                mine == steps' = steps + 1 /\ last'.signer = u
            IN  IF mine /\ last'.op = "stake" /\ before.amount = 0
                THEN after.stake_start_time = now /\ after.amount > 0
                ELSE IF mine /\ last'.op = "complete_unstake"
                        /\ after.amount = 0
                THEN after.stake_start_time = 0
                ELSE after.stake_start_time = before.stake_start_time
      ]_vars

\* a re-stake after a full unstake: the start time, reset to 0 by
\* complete_unstake, is now the time of the new stake
C31_Witness ==
    /\ prog = "kr8tiv"
    /\ last.op = "stake"
    /\ kr8tiv.users[last.signer].amount = last.arg
    /\ kr8tiv.users[last.signer].stake_start_time = now
    /\ kr8tiv.users[last.signer].pending_rewards > 0
    /\ now >= Genesis + COOLDOWN_DURATION
    /\ kr8tiv.wallet[last.signer] = InitialWallet - last.arg

\* ---- C32: claim_rewards

\* C32 as stated: whenever a user's settled plus newly accrued rewards are 0
\* (nothing pending and nothing staked, or a settlement that accrues nothing),
\* claim_rewards fails with NoRewardsToClaim.
C32_NothingToClaimAlwaysNoRewardsToClaim ==
    \A u \in Users :
        LET us == kr8tiv.users[u]
            upd == K_update_rewards(kr8tiv.pool, now)
            nothing ==
                /\ us.pending_rewards = 0
                /\ \/ us.amount = 0
                   \/ /\ upd.err = "Ok"
                      /\ K_calculate_pending_rewards(upd.pool, us) = 0
        IN  nothing =>
                K_claim_rewards(kr8tiv, u, now).err = "NoRewardsToClaim"

\* C32: when the pool settlement succeeds and the user's settled plus newly
\* accrued rewards are 0, claim_rewards fails with NoRewardsToClaim (when the
\* settlement overflows it fails with MathOverflow).  On success the total
\* was positive, the reward is paid from the reward vault, pending_rewards is
\* 0, reward_per_token_paid is the current accumulator and the paid amount is
\* added to total_rewards_claimed, so that a second claim_rewards by the same
\* user at the same time fails with NoRewardsToClaim.
C32_ClaimRewards ==
    \A u \in Users :
        LET us == kr8tiv.users[u]
            upd == K_update_rewards(kr8tiv.pool, now)
            accrued == IF us.amount = 0 THEN 0
                       ELSE AsU64((us.amount
                                    * SatSub(upd.pool.reward_per_token_stored,
                                             us.reward_per_token_paid))
                                  \div RPT_SCALE)
            r == K_claim_rewards(kr8tiv, u, now)
            after == r.st.users[u]
        IN  /\ upd.err # "Ok" => r.err = "MathOverflow"
            /\ (upd.err = "Ok" /\ us.pending_rewards + accrued = 0) =>
                    r.err = "NoRewardsToClaim"
            /\ r.err = "Ok" =>
                /\ us.pending_rewards + accrued > 0
                /\ r.st.reward_vault = kr8tiv.reward_vault - r.payout
                /\ after.pending_rewards = 0
                /\ after.reward_per_token_paid
                       = r.st.pool.reward_per_token_stored
                /\ r.st.pool.last_update_time = now
                /\ after.total_rewards_claimed
                       = us.total_rewards_claimed + r.payout
                /\ after.amount = us.amount
                /\ K_claim_rewards(r.st, u, now).err = "NoRewardsToClaim"

\* a committed claim that paid a positive reward; the claimant still has
\* stake and a second claim at the same time is refused
C32_Witness ==
    /\ prog = "kr8tiv"
    /\ last.op = "claim_rewards"
    /\ last.payout > 0
    /\ LET us == kr8tiv.users[last.signer]
       IN  /\ us.amount > 0
           /\ us.pending_rewards = 0
           /\ us.total_rewards_claimed >= last.payout
           /\ us.reward_per_token_paid = kr8tiv.pool.reward_per_token_stored
           /\ K_claim_rewards(kr8tiv, last.signer, now).err
                  = "NoRewardsToClaim"

\* ---- C33: a PendingAction is terminal once executed or expired

\* C33: once a proposed PendingAction is executed or its expiry time has
\* passed, no step changes its action, proposer, approvals, expires_at or
\* executed flag.
C33_PendingTerminal ==
    [][ (/\ emerg.pending # E_NoPending
         /\ \/ emerg.pending.executed
            \/ now >= emerg.pending.expires_at) =>
            /\ emerg'.pending.action = emerg.pending.action
            /\ emerg'.pending.proposer = emerg.pending.proposer
            /\ emerg'.pending.approvals = emerg.pending.approvals
            /\ emerg'.pending.expires_at = emerg.pending.expires_at
            /\ emerg'.pending.executed = emerg.pending.executed
      ]_vars

\* ---- C34: rewards paid against rewards emitted (staking)

\* C34: in the staking program the rewards paid out to all users so far never
\* exceed what the pool has emitted so far: reward_rate * elapsed seconds,
\* summed over the intervals in which total_weight > 0 (the interval since
\* the last settlement included).
C34_PaidWithinEmitted ==
    prog = "staking" =>
        LET pool == staking.pool
            running == IF pool.total_weight > 0
                       THEN (now - pool.last_update) * pool.reward_rate
                       ELSE 0
        IN  ledger.rewards_paid <= ledger.rewards_emitted + running

\* ---- C35: no principal is handed out twice in emergency mode

\* C35: the amounts returned by emergency_unstake plus the staked amounts
\* returned by admin_emergency_withdraw since emergency mode was entered never
\* exceed the total principal that was staked when it was entered.
C35_PrincipalReturnedOnce ==
    prog = "emergency" =>
        ledger.principal_returned <= ledger.principal_at_entry

\* ---- C36: order of claim_rewards and complete_unstake

\* C36: for a user whose cooldown has elapsed, claim_rewards followed by
\* complete_unstake and complete_unstake followed by claim_rewards, all at the
\* same time, pay the same reward.
C36_ClaimUnstakeOrder ==
    prog = "kr8tiv" =>
        \A u \in Users :
            LET us == kr8tiv.users[u]
                claim_first == K_claim_rewards(kr8tiv, u, now)
                then_unstake == K_complete_unstake(claim_first.st, u, now)
                unstake_first == K_complete_unstake(kr8tiv, u, now)
                then_claim == K_claim_rewards(unstake_first.st, u, now)
            IN  (/\ us.cooldown_amount > 0
                 /\ now >= us.cooldown_end
                 /\ claim_first.err = "Ok" /\ then_unstake.err = "Ok"
                 /\ unstake_first.err = "Ok" /\ then_claim.err = "Ok") =>
                    then_claim.payout = claim_first.payout

\* ---- C37: emergency mode implies paused

\* C37: starting from is_paused = emergency_mode = FALSE, every reachable
\* pool has emergency_mode => is_paused, so admin_emergency_withdraw by the
\* primary admin succeeds exactly when emergency_mode is set.
C37_EmergencyImpliesPaused ==
    /\ emerg.global_pool.emergency_mode => emerg.global_pool.is_paused
    /\ (admin_emergency_withdraw(emerg, emerg.admin.primary_admin).err = "Ok")
           <=> emerg.global_pool.emergency_mode

\* emergency mode entered on a pool with stake after a gradual shutdown was
\* initiated and at least one more instruction or tick: the pool is paused
C37_Witness ==
    /\ last.op = "enable_emergency_mode"
    /\ steps >= 3
    /\ ledger.principal_at_entry > 0
    /\ emerg.global_pool.emergency_mode
    /\ emerg.global_pool.is_paused
    /\ emerg.shutdown # E_NoShutdown

\* ---- C38: total_stakers counts each staker once

\* C38: an emergency_unstake on a record whose staked_amount is already 0 (a
\* repeated call, for example) leaves pool.total_staked and
\* pool.total_stakers unchanged.
C38_StakerCountedOnce ==
    \A holder \in Users :
        LET r == emergency_unstake(emerg, holder, holder)
        IN  (r.err = "Ok" /\ emerg.stakes[holder].staked_amount = 0) =>
                /\ r.st.global_pool.total_staked
                       = emerg.global_pool.total_staked
                /\ r.st.global_pool.total_stakers
                       = emerg.global_pool.total_stakers

\* ---- C39: the staking vault covers pool.total_staked (kr8tiv-staking)

\* C39: as long as no emergency_withdraw is committed, the tokens held by the
\* staking vault equal pool.total_staked (every other step keeps the
\* equality), and no user ever gets back more principal than the user
\* deposited: the tokens in the user's wallet plus the user's staked amount
\* stay what the wallet held at the start.
C39_VaultCoversStake ==
    [][ prog = "kr8tiv" =>
        /\ (/\ kr8tiv.staking_vault = kr8tiv.pool.total_staked
             /\ ~(steps' = steps + 1 /\ last'.op = "emergency_withdraw")) =>
                kr8tiv'.staking_vault = kr8tiv'.pool.total_staked
        /\ \A u \in Users :
            /\ kr8tiv'.wallet[u] <= InitialWallet
            /\ kr8tiv'.wallet[u] + kr8tiv'.users[u].amount = InitialWallet
      ]_vars

\* a completed partial unstake with no emergency_withdraw before it: the
\* vault holds exactly the stake that is left
C39_Witness ==
    /\ prog = "kr8tiv"
    /\ last.op = "complete_unstake"
    /\ kr8tiv.users[last.signer].amount > 0
    /\ kr8tiv.staking_vault = kr8tiv.pool.total_staked
    /\ kr8tiv.staking_vault = kr8tiv.users[last.signer].amount
    /\ kr8tiv.wallet[last.signer]
           = InitialWallet - kr8tiv.users[last.signer].amount

\* ---- C40: reaching the multisig threshold

\* C40 as stated: approve_emergency_action returns true exactly when the
\* approval it adds brings approvals.len() to required_approvals.
C40_ApprovedOnlyAtThreshold ==
    [][ (steps' = steps + 1 /\ last'.op = "approve_emergency_action") =>
            (last'.payout = 1
                <=> Len(emerg'.pending.approvals)
                        = emerg'.pending.required_approvals)
      ]_vars

\* C40: a committed approve_emergency_action adds one approval and returns
\* true exactly when approvals.len() is then at least required_approvals.
\* When required_signatures is at most the number of distinct admin
\* identities, the threshold is met once each of them has approved, and the
\* approval that completes the set returns true; when it exceeds that number
\* (at most 3), no PendingAction ever has enough approvals and no approval
\* returns true.
C40_ThresholdReachable ==
    [][ LET admin == emerg.admin
            identities == {admin.primary_admin, admin.secondary_admin,
                           admin.emergency_admin}
            before == emerg.pending
            after == emerg'.pending
            approved == steps' = steps + 1
                            /\ last'.op = "approve_emergency_action"
        IN  /\ approved =>
                /\ Len(after.approvals) = Len(before.approvals) + 1
                /\ last'.payout = 1
                       <=> Len(after.approvals) >= after.required_approvals
            /\ (/\ after # E_NoPending
                 /\ after.required_approvals <= Cardinality(identities)
                 /\ identities \subseteq Range(after.approvals)) =>
                    /\ Len(after.approvals) >= after.required_approvals
                    /\ approved => last'.payout = 1
            /\ (/\ after # E_NoPending
                 /\ after.required_approvals > Cardinality(identities)) =>
                    /\ Len(after.approvals) < after.required_approvals
                    /\ approved => last'.payout = 0
      ]_vars

\* three distinct admins and a threshold of 3: the third approval has just
\* been committed and returned true
C40_Witness ==
    /\ last.op = "approve_emergency_action"
    /\ last.payout = 1
    /\ emerg.pending.required_approvals = 3
    /\ Len(emerg.pending.approvals) = 3
    /\ Range(emerg.pending.approvals)
           = {emerg.admin.primary_admin, emerg.admin.secondary_admin,
              emerg.admin.emergency_admin}

====
